---- MODULE Spec2Model ----
(***************************************************************************)
(* A model of the data normalization and derivation pipeline of the AJJS   *)
(* financial analytics dashboard: purity classification, the Wingold       *)
(* reader, Sales.add_data, the cashbook reader and the monthly summary.    *)
(*                                                                         *)
(* Units.  A purity fraction p is held as the integer p * 10000 (0.9165 is *)
(* 9165).  Weights are whole grams, money is whole currency units, and a   *)
(* quotient gross / quantity is held as the pair <<gross, quantity>> and   *)
(* compared by cross-multiplication.  A date is a month count, 0 being     *)
(* January 2024, so that the year is 2024 + (date \div 12).  Arithmetic is *)
(* exact: the rounding of binary floating point is not modelled.           *)
(*                                                                         *)
(* A data frame is a sequence of rows; a row is a function from column     *)
(* names to values; a column a row lacks reads as missing.                 *)
(***************************************************************************)
EXTENDS Integers, Sequences, FiniteSets, TLC

VARIABLES
    probe,          \* last application of a purity classifier
    bincard,        \* the BinCard table of the uploaded Wingold file
    wgStatus,       \* outcome of WingoldReader(filepath)
    transactions,   \* WingoldReader._transactions
    wgSales,        \* WingoldReader._sales
    salesDf,        \* Sales._df: isNone before the first batch, else rows
    addRes,         \* outcome of the last Sales.add_data call
    workbook,       \* the sheets of the uploaded cashbook workbook
    categories,     \* the category and fixed-cost configuration files
    currentYear,    \* pd.Timestamp.now().year
    cbStatus,       \* outcome of CashbookReader(filepath, ...)
    mcb,            \* CashbookReader._mcb
    qtr,            \* CashbookReader._qtr
    cashbook,       \* CashbookReader._cashbook
    fixed_costs,    \* CashbookReader._fixed_costs
    lastCall,       \* the last read_supplier_account call made on the reader
    summary,        \* result of the last Analytics.income_expenses_data call
    breakdown,      \* result of the last fixed_cost_pie_chart_data call
    qtrfile,        \* the two sheets of the quarterly workbook
    qtrStatus,      \* whether QTRReader(filepath) has read them
    qtrdata,        \* QTRReader.data of the uploaded quarterly file
    ss,             \* st.session_state: the "cashbook" and "sales" entries
    home            \* st.session_state["redirected"] and the last run of Home

purityVars == <<probe>>
wingoldVars == <<bincard, wgStatus, transactions, wgSales>>
salesVars == <<salesDf, addRes>>
ledgerVars == <<workbook, categories, currentYear, cbStatus, mcb, qtr,
                cashbook, fixed_costs, lastCall>>
queryVars == <<summary, breakdown>>
sessionVars == <<qtrfile, qtrStatus, qtrdata, ss, home>>

vars == <<probe, bincard, wgStatus, transactions, wgSales, salesDf, addRes,
          workbook, categories, currentYear, cbStatus, mcb, qtr, cashbook,
          fixed_costs, lastCall, summary, breakdown, qtrfile, qtrStatus,
          qtrdata, ss, home>>

-----------------------------------------------------------------------------
(* Values that are not numbers.                                            *)

\* the ValueError instance the Wingold classifier returns without raising
ValueErrorObject == -1
\* a missing number (NaN)
NaN == -2
\* +infinity, the quotient of a positive weight by a zero quantity
Inf == -3

\* a missing label or string
NoCategory == "NaN"

-----------------------------------------------------------------------------
(* Bounds.                                                                 *)

\* rows of an uploaded BinCard table
MaxRows == 2
\* rows of an uploaded BinCard table when the weights are explored
MaxBinRows == 1
\* Sales.add_data is not called on a table of this many rows or more
MaxSalesRows == 3
\* rows of the main sheet, of the quarterly sheet, of a supplier sheet
MaxMainRows == 3
MaxQtrRows == 2
MaxSupplierRows == 1
\* read_supplier_account is not called on a cashbook of this many rows
MaxLedgerRows == 6
\* rows of the frame QTRReader.data
MaxBatchRows == 2
\* processing runs of the upload page in one session
MaxRuns == 2
\* rows of a supplier sheet read in several calendar years
MaxYearRows == 2
\* debit rows of the main sheet behind its opening row
MaxCostRows == 2
\* rows of the Issued Record sheet behind its first row
MaxIssuedRows == 2
\* rows of the ItemSales sheet
MaxItemRows == 2
\* rows of the BinCard table of an upload session; its main sheet has
\* at most one row more
MaxSummaryRows == 1

-----------------------------------------------------------------------------
(* Sequence helpers.                                                       *)

\* df[mask]: the rows satisfying Keep, in order
SelectRows(df, Keep(_)) == SelectSeq(df, Keep)

\* df.apply / column assignment: the same function on every row
MapRows(df, F(_)) == [i \in 1..Len(df) |-> F(df[i])]

\* df[col] = value, on one row
WithCol(row, col, val) == (col :> val) @@ row

Has(row, col) == col \in DOMAIN row

-----------------------------------------------------------------------------
(* Purity classification.                                                  *)

\* Purity.ranges of src/models/sales.py, in dictionary order
SalesRanges ==
    << [key |-> "22K", lo |-> 9160, hi |-> 9260],
       [key |-> "21K", lo |-> 8750, hi |-> 8800],
       [key |-> "18K", lo |-> 7500, hi |-> 7600],
       [key |-> "9K",  lo |-> 3750, hi |-> 4100] >>

\* Purity.ranges of src/readers/wingold.py, in dictionary order
WingoldRanges ==
    << [key |-> "22K", lo |-> 9165, hi |-> 9260],
       [key |-> "21K", lo |-> 8750, hi |-> 8800],
       [key |-> "18K", lo |-> 7500, hi |-> 7600],
       [key |-> "9K",  lo |-> 3750, hi |-> 4000] >>

\* purity >= spread[0] and purity <= spread[1]; every comparison with NaN
\* or with a non-finite quotient outside [0, 1] is false
InSpread(p, r) == p >= 0 /\ p >= r.lo /\ p <= r.hi

\* the loop `for key, spread in ranges.items()`: index of the first band
\* that holds p, 0 when the loop runs to its end
FirstBand(ranges, p) ==
    IF \E i \in 1..Len(ranges) : InSpread(p, ranges[i])
    THEN CHOOSE i \in 1..Len(ranges) :
            /\ InSpread(p, ranges[i])
            /\ \A j \in 1..(i - 1) : ~InSpread(p, ranges[j])
    ELSE 0

\* An outcome of a call: raised is TRUE when the call ends in an exception.
Returned(v) == [raised |-> FALSE, value |-> v]
Raised(e)   == [raised |-> TRUE,  value |-> e]

\* sales.py Purity.get_purity_category
Sales_get_purity_category(p) ==
    LET i == FirstBand(SalesRanges, p)
    IN  IF i # 0 THEN Returned(SalesRanges[i].key) ELSE Raised("ValueError")

\* sales.py Purity.get_manufacturing_purity
Sales_get_manufacturing_purity(p) ==
    LET i == FirstBand(SalesRanges, p)
    IN  IF i # 0 THEN Returned(SalesRanges[i].lo)
        ELSE Raised(ValueErrorObject)

\* wingold.py Purity.get_purity_category: the error is returned, not raised
Wingold_get_purity_category(p) ==
    LET i == FirstBand(WingoldRanges, p)
    IN  IF i # 0 THEN Returned(WingoldRanges[i].key)
        ELSE Returned("ValueError")

\* wingold.py Purity.get_manufacturing_purity: the error is returned
Wingold_get_manufacturing_purity(p) ==
    LET i == FirstBand(WingoldRanges, p)
    IN  IF i # 0 THEN Returned(WingoldRanges[i].lo)
        ELSE Returned(ValueErrorObject)

-----------------------------------------------------------------------------
(* Strings are sequences of characters where the code looks inside them.   *)

Digits == {"0", "1", "2", "3", "4", "5", "6", "7", "8", "9"}
UpperLetters == {"A", "B", "C", "D", "E", "G", "H", "I", "K", "N", "P", "R",
                 "S", "T", "U", "X"}
LowerLetters == {"a", "b", "r"}

\* the regular-expression class \d
IsDigit(c) == c \in Digits
\* the regular-expression class \w
IsWord(c) == c \in Digits \cup UpperLetters \cup LowerLetters \cup {"_"}

\* str.upper() on one character
UpperChar(c) ==
    CASE c = "a" -> "A"
      [] c = "b" -> "B"
      [] c = "r" -> "R"
      [] OTHER   -> c

\* Series.str.upper()
Upper(s) == [i \in 1..Len(s) |-> UpperChar(s[i])]

\* str.startswith(prefix) for a one-character prefix
StartsWith(s, c) == Len(s) >= 1 /\ s[1] = c

\* length of the longest run of characters satisfying Cls that starts at i
RunLen(s, i, Cls(_)) ==
    IF i > Len(s) \/ ~Cls(s[i]) THEN 0
    ELSE LET ends == {j \in i..Len(s) :
                        /\ \A k \in i..j : Cls(s[k])
                        /\ (j = Len(s) \/ ~Cls(s[j + 1]))}
         IN  (CHOOSE j \in ends : TRUE) - i + 1

Min(a, b) == IF a <= b THEN a ELSE b

\* the group of the first match of \d{0,2}(\w+) in s, <<>> when none.
\* The match starts at the first word character; the digits are taken
\* greedily but give back what \w+ needs.
ExtractD02W(s) ==
    LET starts == {i \in 1..Len(s) : IsWord(s[i])}
    IN  IF starts = {} THEN <<>>
        ELSE LET i == CHOOSE a \in starts : \A b \in starts : a <= b
                 L == RunLen(s, i, IsWord)
                 d == RunLen(s, i, IsDigit)
                 k == Min(Min(d, 2), L - 1)
             IN  SubSeq(s, i + k, i + L - 1)

\* the group of the first match of \d{2}(\w+) in s, <<>> when none
ExtractD2W(s) ==
    LET starts == {i \in 1..(Len(s) - 2) :
                      IsDigit(s[i]) /\ IsDigit(s[i + 1]) /\ IsWord(s[i + 2])}
    IN  IF starts = {} THEN <<>>
        ELSE LET i == CHOOSE a \in starts : \A b \in starts : a <= b
             IN  SubSeq(s, i + 2, i + 1 + RunLen(s, i + 2, IsWord))

BRA == <<"B", "R", "A">>
CHA == <<"C", "H", "A">>
BAN == <<"B", "A", "N">>
RIN == <<"R", "I", "N">>
PEN == <<"P", "E", "N">>

\* the code-to-category dictionary of WingoldReader.__preprocess;
\* Series.map leaves a code that is not a key missing
WingoldItemCategory(g) ==
    CASE g = BRA -> "Bracelets"
      [] g = CHA -> "Chains"
      [] g = BAN -> "Bangles"
      [] g = RIN -> "Rings"
      [] g = PEN -> "Pendants"
      [] OTHER   -> NoCategory

\* the code-to-category dictionary of Sales.__preprocess
SalesItemCategory(g) ==
    CASE g = BRA -> "Bracelets"
      [] g = CHA -> "Chains"
      [] g = <<"C">> -> "Chains"
      [] g = <<"C", "H", "A", "H", "A">> -> "Chains"
      [] g = BAN -> "Bangles"
      [] g = RIN -> "Rings"
      [] g = <<"R", "I", "N", "G">> -> "Rings"
      [] g = PEN -> "Pendants"
      [] g = <<"P", "S", "E", "T">> -> "Pendants"
      [] g = <<"U", "N", "C", "A", "T">> -> "Uncategorized"
      [] g = <<"U", "N", "K">> -> "Uncategorized"
      [] OTHER   -> NoCategory

-----------------------------------------------------------------------------
(* Weight ranges.                                                          *)

\* bins = [0, 20, 30, 40, 50, 100, 150, float("inf")]: the finite edges
BinEdges == <<0, 20, 30, 40, 50, 100, 150>>

BinLabels == <<"<20g", "20-30g", "30-40g", "40-50g", "50-100g",
               "100-150g", ">150g">>

\* the bins closed on the right instead (right=True)
InBin_RightClosed(num, den, i) ==
    /\ BinEdges[i] * den < num
    /\ (i = Len(BinEdges) \/ num <= BinEdges[i + 1] * den)

\* is the quotient num / den inside bin i, the bins being closed on the
\* left and open on the right (right=False); the last bin ends at infinity
InBin(num, den, i) ==
    /\ BinEdges[i] * den <= num
    /\ (i = Len(BinEdges) \/ num < BinEdges[i + 1] * den)

\* pd.cut(weight, bins, labels, right=False) for weight = num / den.
\* A zero den makes the quotient NaN or infinite, which no bin holds.
Cut(num, den) ==
    IF den <= 0 \/ ~(\E i \in 1..Len(BinEdges) : InBin(num, den, i))
    THEN NoCategory
    ELSE BinLabels[CHOOSE i \in 1..Len(BinEdges) : InBin(num, den, i)]

\* GrossWt / QtyInPcs as a pair
Quotient(num, den) == <<num, den>>

-----------------------------------------------------------------------------
(* WingoldReader.                                                          *)

\* TransactionType.identify_transaction
identify_transaction(doc) ==
    IF StartsWith(doc, "S") THEN "SALE"
    ELSE IF StartsWith(doc, "P") THEN "PURCHASE"
    ELSE IF StartsWith(doc, "R") THEN "RETURN"
    ELSE IF StartsWith(doc, "D") THEN "DIRECT_SALE"
    ELSE "Unknown"

RECURSIVE InsertByDate(_, _)
\* put row behind every row of the sorted frame that is not later
InsertByDate(row, sorted) ==
    IF sorted = <<>> THEN <<row>>
    ELSE IF Head(sorted).DocDate <= row.DocDate
         THEN <<Head(sorted)>> \o InsertByDate(row, Tail(sorted))
         ELSE <<row>> \o sorted

RECURSIVE SortByDocDate(_)
\* sort_values(by="DocDate"), rows of one date keeping their order
SortByDocDate(df) ==
    IF df = <<>> THEN <<>>
    ELSE InsertByDate(df[Len(df)], SortByDocDate(SubSeq(df, 1, Len(df) - 1)))

\* the columns WingoldReader.__preprocess derives for one row
WingoldPreprocessRow(r) ==
    LET code == Upper(r.ItemCode)
    IN  [ DocNumber |-> r.DocNumber,
          DocDate |-> r.DocDate,
          ItemCode |-> code,
          Purity |-> r.Purity,
          QtyInPcs |-> r.QtyInPcs,
          GrossWt |-> r.GrossWt,
          PureWt |-> r.PureWt,
          MakingRt |-> r.MakingRt,
          MakingValue |-> r.MakingValue,
          TransactionType |-> identify_transaction(r.DocNumber),
          Month |-> r.DocDate,
          ItemCategory |-> WingoldItemCategory(ExtractD2W(code)),
          PurityCategory |-> Wingold_get_purity_category(r.Purity).value,
          ManufacturingPurity |->
              Wingold_get_manufacturing_purity(r.Purity).value,
          ItemWeight |-> Quotient(r.GrossWt, r.QtyInPcs),
          WeightRange |-> Cut(r.GrossWt, r.QtyInPcs) ]

\* WingoldReader.__preprocess
WingoldPreprocess(table) ==
    SortByDocDate(MapRows(table, WingoldPreprocessRow))

\* a return whose pure weight keeps its sign
NegateReturn_KeepPure(r) ==
    [r EXCEPT !.GrossWt = -r.GrossWt,
              !.MakingValue = -r.MakingValue]

\* one sales-return row with its quantities negated
NegateReturn(r) ==
    [r EXCEPT !.GrossWt = -r.GrossWt,
              !.PureWt = -r.PureWt,
              !.MakingValue = -r.MakingValue]

IsReturnDoc(r) == StartsWith(r.DocNumber, "R")
IsSaleDoc(r) == StartsWith(r.DocNumber, "S")

\* sales = pd.concat([sales, sales_returns]) of __extract_sales
SalesAndReturns(trans) ==
    SelectRows(trans, IsSaleDoc)
        \o MapRows(SelectRows(trans, IsReturnDoc), NegateReturn)

\* (sales.Purity - sales.ManufacturingPurity) * sales.GrossWt
WingoldGoldGains(r) == (r.Purity - r.ManufacturingPurity) * r.GrossWt

\* WingoldReader.__extract_sales: the subtraction raises TypeError when a
\* manufacturing purity of the frame is the returned ValueError instance
extract_sales(trans) ==
    LET merged == SalesAndReturns(trans)
    IN  IF \E i \in 1..Len(merged) :
              merged[i].ManufacturingPurity = ValueErrorObject
        THEN Raised(<<>>)
        ELSE Returned([i \in 1..Len(merged) |->
                 WithCol(merged[i], "GoldGains", WingoldGoldGains(merged[i]))])

\* WingoldReader.__init__
WingoldReaderInit ==
    /\ wgStatus = "none"
    /\ LET trans == WingoldPreprocess(bincard)
           out == extract_sales(trans)
       IN  IF out.raised
           THEN /\ wgStatus' = "TypeError"
                /\ UNCHANGED <<transactions, wgSales>>
           ELSE /\ wgStatus' = "ok"
                /\ transactions' = trans
                /\ wgSales' = out.value
    /\ UNCHANGED <<probe, bincard, salesVars, ledgerVars, queryVars,
                   sessionVars>>

-----------------------------------------------------------------------------
(* Sales.                                                                  *)

\* Sales.required_columns
required_columns ==
    {"Invoice Number", "Date", "Customer", "Item Code", "Purity",
     "Unit Quantity", "Gross Weight", "Pure Weight", "Making Rate",
     "Making Value"}

\* wingold_mapping of pages/upload.py
wingold_mapping ==
    [c \in {"DocNumber", "DocDate", "TAName", "ItemCode", "Purity",
            "QtyInPcs", "GrossWt", "PureWt", "MakingRt", "MakingValue"} |->
        CASE c = "DocNumber"   -> "Invoice Number"
          [] c = "DocDate"     -> "Date"
          [] c = "TAName"      -> "Customer"
          [] c = "ItemCode"    -> "Item Code"
          [] c = "Purity"      -> "Purity"
          [] c = "QtyInPcs"    -> "Unit Quantity"
          [] c = "GrossWt"     -> "Gross Weight"
          [] c = "PureWt"      -> "Pure Weight"
          [] c = "MakingRt"    -> "Making Rate"
          [] c = "MakingValue" -> "Making Value"]

\* qtr_mapping of pages/upload.py
qtr_mapping ==
    [c \in {"Voucher", "Date", "Account", "Weight", "Pure", "M-Charge"} |->
        CASE c = "Voucher"  -> "Invoice Number"
          [] c = "Date"     -> "Date"
          [] c = "Account"  -> "Customer"
          [] c = "Weight"   -> "Gross Weight"
          [] c = "Pure"     -> "Pure Weight"
          [] c = "M-Charge" -> "Making Value"]

\* mapping=None
NoMapping == [c \in {} |-> ""]

\* the name a column has after df.rename(columns=mapping)
NewName(mapping, c) == IF c \in DOMAIN mapping THEN mapping[c] ELSE c

\* df.rename(columns=mapping) on one row
RenameRow(row, mapping) ==
    [c2 \in {NewName(mapping, c) : c \in DOMAIN row} |->
        row[CHOOSE c \in DOMAIN row : NewName(mapping, c) = c2]]

\* the columns Sales.__preprocess reads
PreprocessReads ==
    {"Date", "Item Code", "Purity", "Gross Weight", "Unit Quantity"}

\* Sales.__preprocess up to the 0.995 filter, for one row: the date
\* attributes, the upper-cased code and the item category
SalesCategorizeRow(r) ==
    LET code == Upper(r["Item Code"])
    IN  ("Month" :> r["Date"])
        @@ ("Item Code" :> code)
        @@ ("Item Category" :> SalesItemCategory(ExtractD02W(code)))
        @@ r

IsUncategorized(r) == r["Item Category"] = "Uncategorized"
NotUncategorized(r) == r["Item Category"] # "Uncategorized"

\* "Remove Uncategorized items if none exist"
DropUncategorized(df) ==
    IF SelectRows(df, IsUncategorized) = <<>>
    THEN SelectRows(df, NotUncategorized)
    ELSE df

NotArtifact(r) == r["Purity"] # 9950

\* the 0.995 records left in
DropArtifact_Keep(df) == df

\* "Edge case: Drop 0.995"
DropArtifact(df) == SelectRows(df, NotArtifact)

\* the purity difference applied to the magnitude of the weight
SalesGoldGains_Magnitude(p, mp, gross) ==
    (p - mp) * (IF gross < 0 THEN -gross ELSE gross)

\* (Purity - Manufacturing Purity) * Gross Weight
SalesGoldGains(p, mp, gross) == (p - mp) * gross

\* Sales.__preprocess after the filters, for one row that classifies
SalesDeriveRow(r) ==
    LET mp == Sales_get_manufacturing_purity(r["Purity"]).value
    IN  ("Purity Category" :> Sales_get_purity_category(r["Purity"]).value)
        @@ ("Manufacturing Purity" :> mp)
        @@ ("Gold Gains" :> SalesGoldGains(r["Purity"], mp, r["Gross Weight"]))
        @@ ("Item Weight" :> Quotient(r["Gross Weight"], r["Unit Quantity"]))
        @@ ("Weight Range" :> Cut(r["Gross Weight"], r["Unit Quantity"]))
        @@ r

\* Sales.__preprocess: KeyError when a column it reads is absent,
\* ValueError when a purity of the filtered frame is in no band
SalesPreprocess(df, columns) ==
    IF ~(PreprocessReads \subseteq columns) THEN Raised("KeyError")
    ELSE LET kept == DropArtifact(DropUncategorized(
                         MapRows(df, SalesCategorizeRow)))
         IN  IF \E i \in 1..Len(kept) :
                   Sales_get_purity_category(kept[i]["Purity"]).raised
             THEN Raised("ValueError")
             ELSE Returned(MapRows(kept, SalesDeriveRow))

\* any() in place of all()
MappingAccepted_Any(mapping) ==
    \E c \in DOMAIN mapping : mapping[c] \in required_columns

\* the check of the mapping at the head of Sales.add_data
MappingAccepted(mapping) ==
    \A c \in DOMAIN mapping : mapping[c] \in required_columns

\* Sales.__init__ with df=None
NoTable == [isNone |-> TRUE, rows |-> <<>>]

\* the new batch in place of the table
Accumulate_Replace(old, df) == [isNone |-> FALSE, rows |-> df]

\* self._df = df, or pd.concat([self._df, df], ignore_index=True)
Accumulate(old, df) ==
    IF old.isNone THEN [isNone |-> FALSE, rows |-> df]
    ELSE [isNone |-> FALSE, rows |-> old.rows \o df]

\* Sales.add_data(df, mapping) on a Sales object holding old: the outcome,
\* whether __preprocess was entered, and the table held afterwards
add_data(old, df, columns, mapping) ==
    IF DOMAIN mapping # {} /\ ~MappingAccepted(mapping)
    THEN [result |-> "SchemaError", preprocessed |-> FALSE, df |-> old]
    ELSE LET renamed == [i \in 1..Len(df) |-> RenameRow(df[i], mapping)]
             cols == {NewName(mapping, c) : c \in columns}
             out == SalesPreprocess(renamed, cols)
         IN  IF out.raised
             THEN [result |-> out.value, preprocessed |-> TRUE, df |-> old]
             ELSE [result |-> "ok", preprocessed |-> TRUE,
                   df |-> Accumulate(old, out.value)]

\* the columns of WingoldReader.sales
WingoldSalesColumns ==
    {"DocNumber", "DocDate", "ItemCode", "Purity", "QtyInPcs", "GrossWt",
     "PureWt", "MakingRt", "MakingValue", "TransactionType", "Month",
     "ItemCategory", "PurityCategory", "ManufacturingPurity", "ItemWeight",
     "WeightRange", "GoldGains"}

\* a mapping with a target outside the required columns
bad_mapping == [c \in {"DocNumber", "DocDate"} |->
                   IF c = "DocNumber" THEN "Invoice" ELSE "Date"]

Mappings == {wingold_mapping, qtr_mapping, NoMapping, bad_mapping}

\* sales.add_data(wingold.sales, mapping=m)
AddData(m) ==
    /\ wgStatus = "ok"
    /\ Len(salesDf.rows) < MaxSalesRows
    /\ LET out == add_data(salesDf, wgSales, WingoldSalesColumns, m)
       IN  /\ salesDf' = out.df
           /\ addRes' = [result |-> out.result,
                         preprocessed |-> out.preprocessed,
                         mapping |-> m,
                         batch |-> wgSales,
                         before |-> salesDf]
    /\ UNCHANGED <<probe, wingoldVars, ledgerVars, queryVars, sessionVars>>

\* the columns of QTRReader.data
QtrDataColumns ==
    {"Date", "Invoice Number", "Gross Weight", "Pure Weight", "Making Value",
     "Item Code", "Making Rate", "Purity", "Unit Quantity",
     "Transaction Type"}

\* sales.add_data(qtr.data, mapping=qtr_mapping)
AddQtrData ==
    /\ Len(salesDf.rows) < MaxSalesRows
    /\ LET out == add_data(salesDf, qtrdata, QtrDataColumns, qtr_mapping)
       IN  /\ salesDf' = out.df
           /\ addRes' = [result |-> out.result,
                         preprocessed |-> out.preprocessed,
                         mapping |-> qtr_mapping,
                         batch |-> qtrdata,
                         before |-> salesDf]
    /\ UNCHANGED <<probe, wingoldVars, ledgerVars, queryVars, sessionVars>>

-----------------------------------------------------------------------------
(* CashbookReader.                                                         *)

\* the month count of pd.Timestamp("2025-01-01")
SupplierCutoff == 12

\* Timestamp.year of a month count
Year(d) == 2024 + (d \div 12)

\* Series.fillna(0)
FillNa(x) == IF x = NaN THEN 0 ELSE x

\* Series.str.strip().str.upper() on the category cells
StripUpper(c) ==
    CASE c = " salary" -> "SALARY"
      [] c = "qtr mc " -> "QTR MC"
      [] c = "Dewa"    -> "DEWA"
      [] OTHER         -> c

\* one row of __read_sheet: a sheet row is <<date, category, 4th, 5th, 6th
\* column>>, `fourth` is the name cols gives the 4th column, and index is
\* the label the row keeps in the frame
ReadSheetRow(raw, i, fourth) ==
    [ index |-> i - 1,
      Date |-> raw.date,
      Category |-> StripUpper(raw.category),
      Debit |-> FillNa(IF fourth = "Debit" THEN raw.c4 ELSE raw.c5),
      Credit |-> FillNa(IF fourth = "Debit" THEN raw.c5 ELSE raw.c4),
      Balance |-> raw.c6 ]

HasDate(r) == r.Date # NaN

\* CashbookReader.__read_sheet: df[pd.notna(df["Date"])]
read_sheet(sheet, fourth) ==
    SelectRows([i \in 1..Len(sheet) |-> ReadSheetRow(sheet[i], i, fourth)],
               HasDate)

RECURSIVE CumSum(_, _, _)
\* Series.cumsum() at position i
CumSum(df, col, i) ==
    IF i = 0 THEN 0 ELSE CumSum(df, col, i - 1) + df[i][col]

\* book.Credit.cumsum() - book.Debit.cumsum(), and the QTR flag
Rebalance(book, flag) ==
    [i \in 1..Len(book) |->
        ("QTR" :> flag)
        @@ [book[i] EXCEPT
               !.Balance = CumSum(book, "Credit", i) - CumSum(book, "Debit", i)]]

\* no opening balance
SeedFirstCredit_Skip(book) == book

\* mcb.loc[0, "Credit"] = mcb.loc[0, "Balance"]; label 0 is the first row
SeedFirstCredit(book) == [book EXCEPT ![1].Credit = book[1].Balance]

\* ignore_index=True
ResetIndex(df) == [i \in 1..Len(df) |-> [df[i] EXCEPT !.index = i - 1]]

\* both sheets read with the column names of the main sheet
read_sheets_SameLayout(wb) ==
    LET main == read_sheet(wb.main, "Debit")
        quarterly == read_sheet(wb.qtr, "Debit")
    IN  IF main = <<>> \/ main[1].index # 0 THEN Raised(<<>>)
        ELSE LET m == Rebalance(SeedFirstCredit(main), FALSE)
                 q == Rebalance(quarterly, TRUE)
             IN  Returned([mcb |-> m, qtr |-> q,
                           cashbook |-> ResetIndex(m \o q)])

\* CashbookReader.__read_sheets: KeyError when the main sheet has no row
\* labelled 0 left, that is when its first row has no date
read_sheets(wb) ==
    LET main == read_sheet(wb.main, "Debit")
        quarterly == read_sheet(wb.qtr, "Credit")
    IN  IF main = <<>> \/ main[1].index # 0 THEN Raised(<<>>)
        ELSE LET m == Rebalance(SeedFirstCredit(main), FALSE)
                 q == Rebalance(quarterly, TRUE)
             IN  Returned([mcb |-> m, qtr |-> q,
                           cashbook |-> ResetIndex(m \o q)])

\* the supplier sheets __init__ reads, with their category names
SupplierCalls ==
    << [sheet |-> "NEVERTITI SHJ",     category |-> "NEVERTITI SHJ"],
       [sheet |-> "NEVERTITI (DUBAI)", category |-> "NEVERTITI DUBAI"],
       [sheet |-> "MUBARAK TOOLS",     category |-> "MUBARAK"],
       [sheet |-> "HARSHAD PRIME",     category |-> "HARSHAD PRIME"],
       [sheet |-> "HARSHAD",           category |-> "HARSHAD"] >>

SupplierSheets == {SupplierCalls[i].sheet : i \in 1..Len(SupplierCalls)}

\* the columns a cashbook row gets from pd.concat with supplier rows
SupplierColumnsMissing ==
    ("Super-Category" :> NoCategory) @@ ("Sub-Category" :> NoCategory)
        @@ ("Cost Type" :> NoCategory)

\* a supplier sheet row <<date, total>> in the structure of the cashbook
SupplierRow(raw, category_name) ==
    [ index |-> 0,
      Date |-> raw.date,
      Category |-> category_name,
      Debit |-> FillNa(raw.total),
      Credit |-> 0,
      Balance |-> NaN,
      QTR |-> FALSE ]
    @@ ("Super-Category" :> "Operations") @@ ("Sub-Category" :> "Suppliers")
    @@ ("Cost Type" :> "VARIABLE")

\* "Keep records from this year only", "Keep only Debit records"
KeepSupplierRow(raw) ==
    /\ raw.date # NaN
    /\ raw.date >= SupplierCutoff
    /\ FillNa(raw.total) > 0

\* a replace that removes nothing, so that the fresh rows pile up
RemovedBy_Never(r, category_name) == FALSE

\* the rows a read_supplier_account call removes from the cashbook
RemovedBy(r, category_name) == r.Category = category_name

\* CashbookReader.read_supplier_account on the cashbook `book`
read_supplier_account(book, sheet, category_name) ==
    LET Fresh(raw) == SupplierRow(raw, category_name)
        Stays(r) == ~RemovedBy(r, category_name)
        Filled(r) == r @@ SupplierColumnsMissing
    IN  ResetIndex(SelectRows(MapRows(book, Filled), Stays)
                     \o MapRows(SelectRows(sheet, KeepSupplierRow), Fresh))

RECURSIVE ReadSuppliers(_, _, _)
\* every call made on the ledger the sheets gave, the last one kept
ReadSuppliers_LastOnly(book, wb, calls) ==
    IF calls = <<>> THEN book
    ELSE read_supplier_account(book, wb.suppliers[calls[Len(calls)].sheet],
                               calls[Len(calls)].category)

\* the read_supplier_account calls of __init__, in order
ReadSuppliers(book, wb, calls) ==
    IF calls = <<>> THEN book
    ELSE ReadSuppliers(
             read_supplier_account(book, wb.suppliers[Head(calls).sheet],
                                   Head(calls).category),
             wb, Tail(calls))

\* book[book["Date"].dt.year == current_year]
ThisYear(book, year) ==
    LET InYear(r) == Year(r.Date) = year
    IN  SelectRows(book, InYear)

RECURSIVE FlatSubs(_)
\* the (super-category, sub-category) entries of a category file in the
\* order the nested loops visit them
FlatSubs(db) ==
    IF db = <<>> THEN <<>>
    ELSE [i \in 1..Len(Head(db).subs) |->
             [super |-> Head(db).super, sub |-> Head(db).subs[i].sub,
              values |-> Head(db).subs[i].values,
              key |-> Head(db).subs[i].key]]
         \o FlatSubs(Tail(db))

\* the first index of a non-empty set of indices
First(hits) == CHOOSE i \in hits : \A j \in hits : i <= j

\* CashbookReader.__assign_subcategory
assign_subcategory(row, category_db) ==
    LET f == FlatSubs(category_db)
        hits == {i \in 1..Len(f) : row.Category \in f[i].values}
    IN  IF hits = {} THEN "Uncategorized" ELSE f[First(hits)].sub

\* CashbookReader.__assign_supercategory
assign_supercategory(row, category_db) ==
    LET f == FlatSubs(category_db)
        hits == {i \in 1..Len(f) : f[i].sub = row["Sub-Category"]}
    IN  IF hits = {} THEN "Uncategorized" ELSE f[First(hits)].super

\* a debit of an unknown sub-category taken for a variable cost
assign_cost_type_Variable(row, category_db) ==
    LET f == FlatSubs(category_db)
        hits == {i \in 1..Len(f) : f[i].sub = row["Sub-Category"]}
    IN  IF hits = {} THEN "VARIABLE" ELSE f[First(hits)].key

\* CashbookReader.__assign_cost_type
assign_cost_type(row, category_db) ==
    LET f == FlatSubs(category_db)
        hits == {i \in 1..Len(f) : f[i].sub = row["Sub-Category"]}
    IN  IF hits = {} THEN "Uncategorized" ELSE f[First(hits)].key

\* the expense table for every row
TableFor_Expense(row, cfg) == cfg.expense

\* the table the lambdas of __assign_categories pass for a row
TableFor(row, cfg) == IF row.Credit > 0 THEN cfg.income ELSE cfg.expense

\* CashbookReader.__assign_categories on one row
AssignRow(row, cfg) ==
    LET r1 == ("Sub-Category" :> assign_subcategory(row, TableFor(row, cfg)))
                  @@ row
        r2 == ("Super-Category" :> assign_supercategory(r1, TableFor(r1, cfg)))
                  @@ r1
    IN  ("Cost Type" :> IF r2.Debit > 0
                        THEN assign_cost_type(r2, cfg.expense) ELSE "")
            @@ r2

\* CashbookReader.__assign_categories
assign_categories(book, cfg) ==
    [i \in 1..Len(book) |-> AssignRow(book[i], cfg)]

\* book[col] = book.apply(..., axis=1): the apply of a frame with no rows
\* gives a frame, not a column, and the assignment of a frame of several
\* columns to one column is a ValueError in pandas 2 and takes the frame's
\* first column in pandas 1; the repository pins no version
ApplyOutcomes(books) ==
    IF \E i \in 1..Len(books) : books[i] = <<>>
    THEN {"ok", "ValueError"}
    ELSE {"ok"}

\* CashbookReader.__read_fixed_costs
read_fixed_costs(fixed) ==
    [i \in 1..Len(fixed) |->
        ("Sub-Category" :> fixed[i].sub) @@ ("Super-Category" :> fixed[i].super)
            @@ ("Debit" :> fixed[i].cost) @@ ("Cost Type" :> "FIXED")]

NoCall == [sheet |-> "none", category |-> "none", times |-> 0, after |-> <<>>]

\* a reader that was not constructed: the constructor raised
NoReader(error) ==
    [status |-> error, cashbook |-> <<>>, mcb |-> <<>>, qtr |-> <<>>,
     fixed_costs |-> <<>>]

\* CashbookReader(filepath, ...) with only_this_year=True: the readers the
\* constructor can give
CashbookReader(wb, cfg, year) ==
    LET sheets == read_sheets(wb)
    IN  IF sheets.raised THEN {NoReader("KeyError")}
        ELSE LET merged == ReadSuppliers(sheets.value.cashbook, wb,
                                         SupplierCalls)
                 book == ThisYear(merged, year)
                 main == ThisYear(sheets.value.mcb, year)
                 quarterly == ThisYear(sheets.value.qtr, year)
             IN  {IF outcome = "ValueError" THEN NoReader("ValueError")
                  ELSE [status |-> "ok",
                        cashbook |-> assign_categories(book, cfg),
                        mcb |-> assign_categories(main, cfg),
                        qtr |-> assign_categories(quarterly, cfg),
                        fixed_costs |-> read_fixed_costs(cfg.fixed)] :
                     outcome \in ApplyOutcomes(<<book, main, quarterly>>)}

\* CashbookReader.__init__ with only_this_year=True
CashbookReaderInit ==
    /\ cbStatus = "none"
    /\ \E reader \in CashbookReader(workbook, categories, currentYear) :
          /\ cbStatus' = reader.status
          /\ IF reader.status = "ok"
             THEN /\ cashbook' = reader.cashbook
                  /\ mcb' = reader.mcb
                  /\ qtr' = reader.qtr
                  /\ fixed_costs' = reader.fixed_costs
             ELSE UNCHANGED <<mcb, qtr, cashbook, fixed_costs>>
    /\ UNCHANGED <<workbook, categories, currentYear, lastCall>>
    /\ UNCHANGED <<purityVars, wingoldVars, salesVars, queryVars,
                   sessionVars>>

\* reader.read_supplier_account(workbook, sheet_name, cols, category_name)
\* on the constructed reader; lastCall counts the calls made in a row with
\* these arguments and keeps the cashbook the first of them left
ReadSupplierAccount(call) ==
    /\ cbStatus = "ok"
    /\ Len(cashbook) < MaxLedgerRows
    /\ cashbook' = read_supplier_account(cashbook,
                       workbook.suppliers[call.sheet], call.category)
    /\ lastCall' =
          IF lastCall.sheet = call.sheet /\ lastCall.category = call.category
          THEN [lastCall EXCEPT !.times = Min(2, lastCall.times + 1)]
          ELSE [sheet |-> call.sheet, category |-> call.category,
                times |-> 1, after |-> cashbook']
    /\ UNCHANGED <<workbook, categories, currentYear, cbStatus, mcb, qtr,
                   fixed_costs>>
    /\ UNCHANGED <<purityVars, wingoldVars, salesVars, queryVars,
                   sessionVars>>

-----------------------------------------------------------------------------
(* QTRReader.                                                              *)

Code18_BRA == <<"1", "8", " ", "B", "R", "A">>
Code18_CCH == <<"1", "8", " ", "C", "C", "H">>
CodeSCRAP == <<"S", "C", "R", "A", "P">>

\* the chain of replacements of read_items on the item codes above:
\* "18 BRA" loses its blank; "18 CCH" becomes "18CCH", then "18CHA" by
\* CCH\w? -> CHA, then "18CHAHA" by (\d{2})C -> \1CHA, which matches the
\* "18C" of "18CHA"; "SCRAP" becomes "" and then "UNK"
FormatItemCode(code) ==
    CASE code = Code18_BRA -> <<"1", "8", "B", "R", "A">>
      [] code = Code18_CCH -> <<"1", "8", "C", "H", "A", "H", "A">>
      [] code = CodeSCRAP  -> <<"U", "N", "K">>
      [] OTHER             -> code

\* QTRReader.read_items: the columns of the ItemSales sheet the join reads
read_items(items) ==
    [i \in 1..Len(items) |->
        [items[i] EXCEPT !["Item Code"] = FormatItemCode(@)]]

\* round(Pure Weight / Gross Weight, 3) as a purity in ten-thousandths,
\* the pure weight being held in ten-thousandths of a gram
RoundedPurity(pure, gross) ==
    IF gross = 0 THEN NaN
    ELSE ((2 * pure + 10 * gross) \div (20 * gross)) * 10

RECURSIVE LeftMerge(_, _)
\* df.merge(info[["Invoice Number", "Item Code", "Making Rate"]],
\* on="Invoice Number", how="left"): one row for every item of the invoice,
\* one row with empty item columns when there is none
LeftMerge(df, info) ==
    IF df = <<>> THEN <<>>
    ELSE LET row == Head(df)
             SameInvoice(it) == it["Invoice Number"] = row["Invoice Number"]
             found == SelectRows(info, SameInvoice)
             With(code, rate) ==
                 ("Item Code" :> code) @@ ("Making Rate" :> rate) @@ row
         IN  (IF found = <<>> THEN <<With(<<>>, NaN)>>
              ELSE [k \in 1..Len(found) |->
                       With(found[k]["Item Code"], found[k]["Making Rate"])])
             \o LeftMerge(Tail(df), info)

\* the derived columns of _read_qtr_file
QtrDeriveRow(r) ==
    ("Purity" :> RoundedPurity(r["Pure Weight"], r["Gross Weight"]))
        @@ ("Unit Quantity" :> 1) @@ ("Transaction Type" :> "SALE") @@ r

\* QTRReader._read_qtr_file on the sheets Issued Record and ItemSales
read_qtr_file(file) ==
    LET info == read_items(file.items)
        Filled(r) == [r EXCEPT !["Gross Weight"] = FillNa(@),
                               !["Pure Weight"] = FillNa(@),
                               !["Making Value"] = FillNa(@)]
        df == MapRows(Tail(file.issued), Filled)
    IN  SelectRows(MapRows(LeftMerge(df, info), QtrDeriveRow), HasDate)

NoQtrFile == [issued |-> <<>>, items |-> <<>>]

\* QTRReader(filepath)
QTRReaderInit ==
    /\ qtrStatus = "none"
    /\ qtrfile.issued # <<>>
    /\ qtrStatus' = "ok"
    /\ qtrdata' = read_qtr_file(qtrfile)
    /\ UNCHANGED <<qtrfile, ss, home>>
    /\ UNCHANGED <<purityVars, wingoldVars, salesVars, ledgerVars,
                   queryVars>>

-----------------------------------------------------------------------------
(* Analytics.  Every amount of the monthly summary is held in twelfths     *)
(* (12 times the amount), which keeps the division of the fixed costs by   *)
(* 12 exact.                                                               *)

RECURSIVE SumCol(_, _)
\* Series.sum()
SumCol(df, col) ==
    IF df = <<>> THEN 0 ELSE Head(df)[col] + SumCol(Tail(df), col)

\* the group keys of groupby(date.dt.to_period("M"))
MonthsOf(df, dateCol) == {df[i][dateCol] : i \in 1..Len(df)}

\* groupby(month)[col].sum(): one sum for each month that has a row
GroupSum(df, dateCol, col) ==
    [m \in MonthsOf(df, dateCol) |->
        LET InMonth(r) == r[dateCol] = m
        IN  SumCol(SelectRows(df, InMonth), col)]

RECURSIVE SortedSeq(_)
\* the keys of an outer merge, ascending
SortedSeq(set) ==
    IF set = {} THEN <<>>
    ELSE LET least == CHOOSE a \in set : \A b \in set : a <= b
         IN  <<least>> \o SortedSeq(set \ {least})

\* a value of a merged column, NaN filled with 0 by fillna(0)
ValueOrZero(grouped, m) == IF m \in DOMAIN grouped THEN grouped[m] ELSE 0

\* cashbook["Sub-Category"] == "QTR Making Charges"
IsQtrMaking(r) == r["Sub-Category"] = "QTR Making Charges"

\* (cashbook.Debit > 0) & (cashbook["Cost Type"] != "FIXED")
IsExpense(r) == r.Debit > 0 /\ r["Cost Type"] # "FIXED"

\* every FIXED row taken for cbfixed, salaries and rent among them
IsLedgerFixed_All(r) == r["Cost Type"] = "FIXED"

\* the rows behind cbfixed
IsLedgerFixed(r) ==
    /\ r["Cost Type"] = "FIXED"
    /\ r["Sub-Category"] # "Staff Salaries"
    /\ r["Sub-Category"] # "Visa Fees"
    /\ r["Sub-Category"] # "Loans"
    /\ r["Super-Category"] # "Rent"

\* a break-even month labelled as a profit
Position_NonNegative(x) == IF x >= 0 THEN "Profit" ELSE "Loss"

\* lambda x: "Profit" if x > 0 else "Loss"
Position(x) == IF x > 0 THEN "Profit" ELSE "Loss"

\* the gold gains counted as income
SummaryRow_Gains(m, making, gains, qtrMaking, expenses, fixedTwelfths) ==
    LET income == 12 * making + 12 * qtrMaking + 12 * gains
        cost == -1 * (12 * expenses + fixedTwelfths)
    IN  [Month |-> m, GoldGains |-> 12 * gains]
        @@ ("Making Charges" :> 12 * making)
        @@ ("QTR Making Charges" :> 12 * qtrMaking)
        @@ ("Expenses" :> 12 * expenses)
        @@ ("Fixed Costs" :> fixedTwelfths)
        @@ ("Total Income" :> income)
        @@ ("Total Cost" :> cost)
        @@ ("Net Profit" :> income + cost)
        @@ ("Position" :> Position(income + cost))

\* one row of monthly_data, amounts in twelfths
SummaryRow(m, making, gains, qtrMaking, expenses, fixedTwelfths) ==
    LET income == 12 * making + 12 * qtrMaking
        cost == -1 * (12 * expenses + fixedTwelfths)
    IN  [Month |-> m, GoldGains |-> 12 * gains]
        @@ ("Making Charges" :> 12 * making)
        @@ ("QTR Making Charges" :> 12 * qtrMaking)
        @@ ("Expenses" :> 12 * expenses)
        @@ ("Fixed Costs" :> fixedTwelfths)
        @@ ("Total Income" :> income)
        @@ ("Total Cost" :> cost)
        @@ ("Net Profit" :> income + cost)
        @@ ("Position" :> Position(income + cost))

\* the columns income_expenses_data reads from sales_df
SummaryReads == {"DocDate", "MakingValue", "GoldGains"}

\* Analytics.income_expenses_data; AttributeError when sales_df lacks a
\* column the function reads
income_expenses_data(sales_df, columns, book, fixed, gold_rate) ==
    IF ~(SummaryReads \subseteq columns) THEN Raised(<<>>)
    ELSE LET making == GroupSum(sales_df, "DocDate", "MakingValue")
             gains == GroupSum(sales_df, "DocDate", "GoldGains")
             qtrMaking == GroupSum(SelectRows(book, IsQtrMaking),
                                   "Date", "Credit")
             expenses == GroupSum(SelectRows(book, IsExpense),
                                  "Date", "Debit")
             fc == SumCol(fixed, "Debit")
             cbfixed == SumCol(SelectRows(book, IsLedgerFixed), "Debit")
             months == SortedSeq(DOMAIN making \cup DOMAIN qtrMaking
                                    \cup DOMAIN expenses)
         IN  Returned([i \in 1..Len(months) |->
                 SummaryRow(months[i],
                            ValueOrZero(making, months[i]),
                            ValueOrZero(gains, months[i]) * gold_rate,
                            ValueOrZero(qtrMaking, months[i]),
                            ValueOrZero(expenses, months[i]),
                            fc + cbfixed)])

\* the columns of Sales.data after the Wingold batch
CanonicalColumns ==
    {NewName(wingold_mapping, c) : c \in WingoldSalesColumns}
        \cup {"Month", "Item Category", "Purity Category",
              "Manufacturing Purity", "Gold Gains", "Item Weight",
              "Weight Range"}

\* the default gold_rate, and a gold price of 0
GoldRates == {0, 390}

NoSummary == [src |-> "none", rate |-> 0, sales |-> <<>>, ledger |-> <<>>,
              fixed |-> <<>>, out |-> Raised(<<>>)]

\* Analytics.income_expenses_data(sales, reader.cashbook,
\* reader.fixed_costs, gold_rate=rate) where sales is WingoldReader.sales
\* (src = "wingold") or Sales.data (src = "sales")
IncomeExpensesData(src, rate) ==
    /\ cbStatus = "ok"
    /\ \/ src = "wingold" /\ wgStatus = "ok"
       \/ src = "sales" /\ ~salesDf.isNone
    /\ LET table == IF src = "wingold" THEN wgSales ELSE salesDf.rows
           columns == IF src = "wingold" THEN WingoldSalesColumns
                      ELSE CanonicalColumns
       IN  summary' = [src |-> src, rate |-> rate, sales |-> table,
                       ledger |-> cashbook, fixed |-> fixed_costs,
                       out |-> income_expenses_data(table, columns, cashbook,
                                                    fixed_costs, rate)]
    /\ UNCHANGED <<purityVars, wingoldVars, salesVars, ledgerVars,
                   sessionVars, breakdown>>

\* the rows of the ledger behind the fixed-cost breakdown, salaries, visa
\* fees, loans and rent among them
IsBreakdownRow_All(r) == r.Debit > 0 /\ r["Cost Type"] = "FIXED"

\* the rows of the ledger behind the fixed-cost breakdown
IsBreakdownRow(r) ==
    /\ r.Debit > 0
    /\ r["Cost Type"] = "FIXED"
    /\ r["Sub-Category"] # "Staff Salaries"
    /\ r["Sub-Category"] # "Visa Fees"
    /\ r["Sub-Category"] # "Loans"
    /\ r["Super-Category"] # "Rent"

\* the names of the modelled category tables in the order of str
\* comparison, which orders the groups of a groupby
NamesInOrder ==
    << "Employees", "Insurance", "Operations", "Rent", "Sales", "Shop Rent",
       "Staff Salaries", "Suppliers", "Uncategorized", "Utilities" >>

Rank(name) == CHOOSE i \in 1..Len(NamesInOrder) : NamesInOrder[i] = name

\* the rank of a group key <<super-category, sub-category>>
KeyRank(key) == Rank(key[1]) * (Len(NamesInOrder) + 1) + Rank(key[2])

\* groupby(["Super-Category", "Sub-Category", "Cost Type"]) of rows of one
\* cost type, .aggregate({"Debit": "sum"}).reset_index()
GroupDebit(rows) ==
    LET keys == {<<rows[i]["Super-Category"], rows[i]["Sub-Category"]>> :
                    i \in 1..Len(rows)}
        ranks == SortedSeq({KeyRank(k) : k \in keys})
        KeyAt(j) == CHOOSE k \in keys : KeyRank(k) = ranks[j]
        Sum(k) == LET InGroup(r) == /\ r["Super-Category"] = k[1]
                                    /\ r["Sub-Category"] = k[2]
                  IN  SumCol(SelectRows(rows, InGroup), "Debit")
    IN  [j \in 1..Len(ranks) |->
            ("Super-Category" :> KeyAt(j)[1]) @@ ("Sub-Category" :> KeyAt(j)[2])
                @@ ("Cost Type" :> "FIXED") @@ ("Debit" :> Sum(KeyAt(j)))]

RECURSIVE InsertByDebit(_, _)
\* put row behind every row of the sorted frame whose debit is not lower
InsertByDebit(row, sorted) ==
    IF sorted = <<>> THEN <<row>>
    ELSE IF Head(sorted).Debit >= row.Debit
         THEN <<Head(sorted)>> \o InsertByDebit(row, Tail(sorted))
         ELSE <<row>> \o sorted

RECURSIVE SortByDebit(_)
\* sort_values(by=["Cost Type", "Debit"], ascending=False) of rows of one
\* cost type, rows of one debit keeping their order
SortByDebit(df) ==
    IF df = <<>> THEN <<>>
    ELSE InsertByDebit(df[Len(df)], SortByDebit(SubSeq(df, 1, Len(df) - 1)))

\* Analytics.fixed_cost_pie_chart_data on a reader's ledger and fixed
\* costs; Debit is held in twelfths, so that the sum of a group divided by
\* 12 is the sum of the group and a configured yearly cost divided by 12
\* is the cost
fixed_cost_pie_chart_data(book, fixed) ==
    SortByDebit(GroupDebit(SelectRows(book, IsBreakdownRow)) \o fixed)

NoBreakdown == [called |-> FALSE, ledger |-> <<>>, fixed |-> <<>>,
                out |-> <<>>]

\* Analytics.fixed_cost_pie_chart_data(reader)
FixedCostPieChartData ==
    /\ cbStatus = "ok"
    /\ breakdown' = [called |-> TRUE, ledger |-> cashbook,
                     fixed |-> fixed_costs,
                     out |-> fixed_cost_pie_chart_data(cashbook, fixed_costs)]
    /\ UNCHANGED <<purityVars, wingoldVars, salesVars, ledgerVars,
                   sessionVars, summary>>

-----------------------------------------------------------------------------
(* The pages.                                                              *)

\* main() of pages/upload.py once "Process Data" is pressed: the session
\* it leaves, given the uploaded BinCard table, the reader the CashbookReader
\* constructor gave for the uploaded workbook, and the quarterly frame.
\* An exception ends the script; the entries set before it stay.
main(session, table, reader, quarterly) ==
    LET run == session.runs + 1
        started == [session EXCEPT !.runs = run]
        published == [started EXCEPT !.cashbook =
                         [run |-> run, cashbook |-> reader.cashbook,
                          fixed_costs |-> reader.fixed_costs]]
        out == extract_sales(WingoldPreprocess(table))
        first == add_data(NoTable, out.value, WingoldSalesColumns,
                          wingold_mapping)
        second == add_data(first.df, quarterly, QtrDataColumns, qtr_mapping)
    IN  IF reader.status # "ok" THEN [started EXCEPT !.failed = reader.status]
        ELSE IF out.raised THEN [published EXCEPT !.failed = "TypeError"]
        ELSE IF first.result # "ok"
             THEN [published EXCEPT !.failed = first.result]
        ELSE IF second.result # "ok"
             THEN [published EXCEPT !.failed = second.result]
        ELSE [published EXCEPT !.failed = "none",
                               !.sales = [run |-> run, data |-> second.df]]

\* a processing run of the upload page on the uploaded files b and w
UploadMain(b, w) ==
    /\ ss.runs < MaxRuns
    /\ bincard' = b
    /\ workbook' = w
    /\ \E reader \in CashbookReader(w, categories, currentYear) :
          ss' = main(ss, b, reader, qtrdata)
    /\ UNCHANGED <<probe, wgStatus, transactions, wgSales, salesVars,
                   categories, currentYear, cbStatus, mcb, qtr, cashbook,
                   fixed_costs, lastCall, summary, breakdown, qtrfile,
                   qtrStatus, qtrdata, home>>

\* the columns of Sales.data after the two add_data calls of the upload page
SessionColumns == CanonicalColumns \cup QtrDataColumns

NotQtr(r) == r["QTR"] = FALSE

\* pages/financial_analysis.py down to the income_expenses_data call:
\* KeyError when the session lacks an entry or the table lacks "QTR"
financial_data(session, include_qtr, gold_rate) ==
    IF session.sales.run = 0 THEN Raised(<<>>)
    ELSE IF ~include_qtr /\ "QTR" \notin SessionColumns THEN Raised(<<>>)
    ELSE IF session.cashbook.run = 0 THEN Raised(<<>>)
    ELSE LET table == session.sales.data.rows
             sales == IF include_qtr THEN table
                      ELSE SelectRows(table, NotQtr)
         IN  income_expenses_data(sales, SessionColumns,
                                  session.cashbook.cashbook,
                                  session.cashbook.fixed_costs, gold_rate)

\* the financial analysis page is opened
FinancialAnalysis(include_qtr, gold_rate) ==
    /\ ss.runs > 0
    /\ summary' = [src |-> IF include_qtr THEN "page" ELSE "page without QTR",
                   rate |-> gold_rate,
                   sales |-> ss.sales.data.rows,
                   ledger |-> ss.cashbook.cashbook,
                   fixed |-> ss.cashbook.fixed_costs,
                   out |-> financial_data(ss, include_qtr, gold_rate)]
    /\ UNCHANGED breakdown
    /\ UNCHANGED <<purityVars, wingoldVars, salesVars, ledgerVars,
                   sessionVars>>

\* "cashbook" not in ss or "sales" not in ss
Lacking(session) == session.cashbook.run = 0 \/ session.sales.run = 0

\* no run of Home yet: "redirected" is not in st.session_state
NoHome == [has_redirected |-> FALSE, redirected |-> FALSE, reached |-> FALSE,
           switched_to |-> "none", switches |-> 0]

\* a Home that switches to the analysis whenever the data are there
HomeScript_NoFlag(h, session, finished) ==
    IF ~finished
    THEN [h EXCEPT !.has_redirected = TRUE, !.reached = FALSE,
                   !.switched_to = "none"]
    ELSE IF Lacking(session)
    THEN [has_redirected |-> TRUE, redirected |-> FALSE, reached |-> TRUE,
          switched_to |-> "pages/upload.py", switches |-> 0]
    ELSE [has_redirected |-> TRUE, redirected |-> FALSE, reached |-> TRUE,
          switched_to |-> "pages/financial_analysis.py",
          switches |-> Min(2, h.switches + 1)]

\* one run of the script Home.py from the "redirected" flag on.  The flag
\* is set to False when the session has none; present_navigation() runs
\* the selected page, and the lines behind it are reached only when that
\* page finished (no st.stop(), st.switch_page() or exception ended the
\* run).  switches counts the switches to the analysis page made since the
\* data were last lacking.
HomeScript(h, session, finished) ==
    IF ~finished
    THEN [h EXCEPT !.has_redirected = TRUE, !.reached = FALSE,
                   !.switched_to = "none"]
    ELSE IF Lacking(session)
    THEN [has_redirected |-> TRUE, redirected |-> FALSE, reached |-> TRUE,
          switched_to |-> "pages/upload.py", switches |-> 0]
    ELSE IF ~h.redirected
    THEN [has_redirected |-> TRUE, redirected |-> TRUE, reached |-> TRUE,
          switched_to |-> "pages/financial_analysis.py",
          switches |-> Min(2, h.switches + 1)]
    ELSE [h EXCEPT !.reached = TRUE, !.switched_to = "none"]

\* a script run of Home.py
Home(finished) ==
    /\ home' = HomeScript(home, ss, finished)
    /\ UNCHANGED <<qtrfile, qtrStatus, qtrdata, ss>>
    /\ UNCHANGED <<purityVars, wingoldVars, salesVars, ledgerVars,
                   queryVars>>

-----------------------------------------------------------------------------
(* Applying the classifiers to one purity.                                 *)

\* Purity.get_purity_category and get_manufacturing_purity of sales.py
ClassifySales(p) ==
    /\ probe.cls = "none"
    /\ probe' = [cls |-> "sales", p |-> p,
                 category |-> Sales_get_purity_category(p),
                 mpurity |-> Sales_get_manufacturing_purity(p)]
    /\ UNCHANGED <<wingoldVars, salesVars, ledgerVars, queryVars,
                   sessionVars>>

\* Purity.get_purity_category and get_manufacturing_purity of wingold.py
ClassifyWingold(p) ==
    /\ probe.cls = "none"
    /\ probe' = [cls |-> "wingold", p |-> p,
                 category |-> Wingold_get_purity_category(p),
                 mpurity |-> Wingold_get_manufacturing_purity(p)]
    /\ UNCHANGED <<wingoldVars, salesVars, ledgerVars, queryVars,
                   sessionVars>>

-----------------------------------------------------------------------------
(* Inputs.                                                                 *)

\* one BinCard row; the pure weight is in 1/10000 gram
RawRow(doc, date, code, p, qty, gross) ==
    [ DocNumber |-> doc, DocDate |-> date, ItemCode |-> code, Purity |-> p,
      QtyInPcs |-> qty, GrossWt |-> gross, PureWt |-> p * gross,
      MakingRt |-> 3, MakingValue |-> 3 * gross ]

Tables(rows, n) == UNION {[1..k -> rows] : k \in 0..n}

Code18BRA == <<"1", "8", "b", "r", "a">>

SalesRawRows ==
    {RawRow(<<d, "1">>, date, Code18BRA, p, 1, 10) :
        d \in {"S", "R", "P"}, date \in {12, 13}, p \in {7500, 9200, 5000}}

BinRawRows ==
    {RawRow(<<d, "1">>, 12, Code18BRA, 7500, qty, gross) :
        d \in {"S", "R"}, qty \in {0, 1, 3},
        gross \in {0, 19, 20, 29, 30, 39, 40, 49, 50, 59, 60, 99, 100,
                   149, 150, 449, 450}}

Code18X == <<"1", "8", "X">>
CodeUNK == <<"U", "N", "K">>
\* the item code of a row the left join found no item for
NoCode == <<>>

\* one row of QTRReader.data: Purity is round(Pure Weight / Gross Weight, 3)
QtrDataRow(code, p, gross) ==
    ("Invoice Number" :> <<"Q", "1">>) @@ ("Date" :> 12)
        @@ ("Item Code" :> code) @@ ("Purity" :> p)
        @@ ("Unit Quantity" :> 1) @@ ("Gross Weight" :> gross)
        @@ ("Pure Weight" :> p * gross) @@ ("Making Rate" :> 3)
        @@ ("Making Value" :> 3 * gross) @@ ("Transaction Type" :> "SALE")

QtrDataRows ==
    {QtrDataRow(code, p, 10) :
        code \in {Upper(Code18BRA), Code18X, CodeUNK, NoCode},
        p \in {7500, 9950, 5000}}

BatchRawRows ==
    {RawRow(<<"S", "1">>, 12, code, p, 1, 10) :
        code \in {Code18BRA, Code18X}, p \in {7500, 9950}}

NoProbe == [cls |-> "none", p |-> 0,
            category |-> Returned("none"), mpurity |-> Returned(0)]

NoAdd == [result |-> "none", preprocessed |-> FALSE,
          mapping |-> NoMapping, batch |-> <<>>, before |-> NoTable]

\* one row of a cashbook sheet, columns C to H without the details
SheetRow(date, category, c4, c5, c6) ==
    [date |-> date, category |-> category, c4 |-> c4, c5 |-> c5, c6 |-> c6]

\* one row of a supplier sheet: its date and its total
SupplierSheetRow(date, total) == [date |-> date, total |-> total]

\* data/static/expense_categories.json
ExpenseCategories ==
    << [super |-> "Operations",
        subs |-> << [sub |-> "Suppliers", values |-> {"MUBARAK"},
                     key |-> "VARIABLE"],
                    [sub |-> "Utilities", values |-> {"DEWA"},
                     key |-> "FIXED"] >>],
       [super |-> "Employees",
        subs |-> << [sub |-> "Staff Salaries", values |-> {"SALARY"},
                     key |-> "FIXED"] >>] >>

\* data/static/income_categories.json
IncomeCategories ==
    << [super |-> "Sales",
        subs |-> << [sub |-> "QTR Making Charges", values |-> {"QTR MC"},
                     key |-> "VARIABLE"],
                    [sub |-> "Making Charges", values |-> {"MC"},
                     key |-> "VARIABLE"] >>] >>

\* data/static/fixed_costs.json
FixedCostsFile == << [sub |-> "Office Rent", super |-> "Rent", cost |-> 120] >>

Configuration == [expense |-> ExpenseCategories, income |-> IncomeCategories,
                  fixed |-> FixedCostsFile]

NoSuppliers == [sh \in SupplierSheets |-> <<>>]

\* a workbook whose MUBARAK TOOLS sheet holds one row of this year
OneSupplier ==
    [NoSuppliers EXCEPT !["MUBARAK TOOLS"] = <<SupplierSheetRow(12, 4)>>]

\* an opening-balance row of January 2025
OpeningRow == SheetRow(12, "MC", NaN, NaN, 100)

MainSheetRows ==
    {SheetRow(date, kind[1], kind[2], kind[3], 100) :
        date \in {NaN, 12},
        kind \in {<<" salary", 20, NaN>>, <<"qtr mc ", NaN, 7>>}}

QtrSheetRows ==
    {SheetRow(date, "qtr mc ", kind[1], kind[2], NaN) :
        date \in {NaN, 11, 12}, kind \in {<<7, NaN>>, <<NaN, 3>>}}

SupplierSheetRows ==
    {SupplierSheetRow(date, total) : date \in {11, 12}, total \in {NaN, 4}}

SummarySheetRows ==
    {SheetRow(date, kind[1], kind[2], kind[3], 50) :
        date \in {12, 14},
        kind \in {<<"MISC", 23, NaN>>, <<"Dewa", 20, NaN>>,
                  <<"qtr mc ", NaN, 7>>, <<"MC", NaN, 7>>}}

SummaryRawRows ==
    {RawRow(<<"S", "1">>, date, Code18BRA, 9200, 1, 10) : date \in {12, 13}}

InitSalesSide ==
    /\ wgStatus = "none"
    /\ transactions = <<>>
    /\ wgSales = <<>>
    /\ salesDf = NoTable
    /\ addRes = NoAdd

\* the ledger side before a reader is constructed, in a calendar year
InitLedgerIn(year) ==
    /\ categories = Configuration
    /\ currentYear = year
    /\ cbStatus = "none"
    /\ mcb = <<>>
    /\ qtr = <<>>
    /\ cashbook = <<>>
    /\ fixed_costs = <<>>
    /\ lastCall = NoCall

InitLedgerSide == InitLedgerIn(2025)

\* no entry of st.session_state is set: run 0 stands for no run
NoSession == [cashbook |-> [run |-> 0, cashbook |-> <<>>, fixed_costs |-> <<>>],
              sales |-> [run |-> 0, data |-> NoTable],
              runs |-> 0, failed |-> "none"]

InitRest ==
    /\ probe = NoProbe
    /\ summary = NoSummary
    /\ breakdown = NoBreakdown
    /\ qtrdata = <<>>
    /\ qtrfile = NoQtrFile
    /\ qtrStatus = "none"
    /\ ss = NoSession
    /\ home = NoHome
    /\ InitSalesSide
    /\ InitLedgerSide

\* a quarterly row of January 2025: a credit of 7
QuarterlyRow == SheetRow(12, "QTR MC", 7, NaN, NaN)

FixedWorkbook ==
    [main |-> <<OpeningRow>>, qtr |-> <<QuarterlyRow>>,
     suppliers |-> OneSupplier]

\* an upload session: the readers, the Wingold batch, the monthly summary
Init ==
    /\ bincard \in Tables(SummaryRawRows, MaxSummaryRows) \ {<<>>}
    /\ workbook \in
          {[main |-> m, qtr |-> <<QuarterlyRow>>, suppliers |-> OneSupplier] :
              m \in Tables(SummarySheetRows, MaxSummaryRows + 1)}
    /\ InitRest

\* the Wingold reader and Sales.add_data on tables of sales, returns and
\* purchases
InitSales ==
    /\ bincard \in Tables(SalesRawRows, MaxRows)
    /\ workbook = FixedWorkbook
    /\ InitRest

\* the same on tables that explore the weights
InitBins ==
    /\ bincard \in Tables(BinRawRows, MaxBinRows)
    /\ workbook = FixedWorkbook
    /\ InitRest

\* the cashbook reader on main and quarterly sheets
InitLedger ==
    /\ bincard = <<>>
    /\ workbook \in
          {[main |-> m, qtr |-> q, suppliers |-> OneSupplier] :
              m \in Tables(MainSheetRows, MaxMainRows),
              q \in Tables(QtrSheetRows, MaxQtrRows)}
    /\ InitRest

\* the cashbook reader on supplier sheets
InitSuppliers ==
    /\ bincard = <<>>
    /\ workbook \in
          {[main |-> <<OpeningRow>> \o m, qtr |-> <<QuarterlyRow>>,
            suppliers |-> [OneSupplier EXCEPT !["HARSHAD"] = h]] :
              m \in Tables({SheetRow(12, "HARSHAD", 20, NaN, 0),
                            SheetRow(12, " salary", 20, NaN, 0)},
                           MaxSupplierRows),
              h \in Tables(SupplierSheetRows, MaxSupplierRows + 1)}
    /\ InitRest

InitPurity ==
    /\ bincard = <<>>
    /\ workbook = FixedWorkbook
    /\ InitRest

\* Sales.add_data on batches of the two sources
InitBatches ==
    /\ bincard \in Tables(BatchRawRows, MaxBinRows) \ {<<>>}
    /\ workbook = FixedWorkbook
    /\ probe = NoProbe
    /\ summary = NoSummary
    /\ breakdown = NoBreakdown
    /\ qtrdata \in Tables(QtrDataRows, MaxBatchRows)
    /\ qtrfile = NoQtrFile
    /\ qtrStatus = "given"
    /\ ss = NoSession
    /\ home = NoHome
    /\ InitSalesSide
    /\ InitLedgerSide

\* the Wingold files of an upload session: a sale, a sale with a purity in
\* no band, a return
UploadBinCards ==
    {<<RawRow(<<d, "1">>, 12, Code18BRA, p, 1, 10)>> :
        d \in {"S", "R"}, p \in {9200, 5000}}

\* the cashbook files of an upload session; one has an empty main sheet
UploadWorkbooks == {FixedWorkbook, [FixedWorkbook EXCEPT !.main = <<>>]}

\* the quarterly frames of an upload session; one has a purity in no band
UploadQtrData ==
    {<<>>, <<QtrDataRow(Upper(Code18BRA), 7500, 10)>>,
     <<QtrDataRow(Upper(Code18BRA), 5000, 10)>>}

\* a session in which nothing was uploaded yet
InitUpload ==
    /\ bincard = <<>>
    /\ workbook = [main |-> <<>>, qtr |-> <<>>, suppliers |-> NoSuppliers]
    /\ probe = NoProbe
    /\ summary = NoSummary
    /\ breakdown = NoBreakdown
    /\ qtrdata \in UploadQtrData
    /\ qtrfile = NoQtrFile
    /\ qtrStatus = "given"
    /\ ss = NoSession
    /\ home = NoHome
    /\ InitSalesSide
    /\ InitLedgerSide

\* the rows of a supplier sheet of December 2024, January 2025 and January
\* 2026, with no total, an invoice and a credit note
YearSheetRows ==
    {SupplierSheetRow(date, total) :
        date \in {11, 12, 24}, total \in {NaN, 4, -5}}

\* the month count of January of a year
January(year) == (year - 2024) * 12

\* pd.Timestamp.now().year of the runs
Years == {2025, 2026}

\* the cashbook reader constructed in 2025 or in 2026 on a workbook whose
\* two sheets hold a row of that January
InitYears ==
    /\ bincard = <<>>
    /\ \E year \in Years :
          /\ workbook \in
                {[main |-> <<SheetRow(January(year), "MC", NaN, NaN, 100)>>,
                  qtr |-> <<SheetRow(January(year), "QTR MC", 7, NaN, NaN)>>,
                  suppliers |-> [NoSuppliers EXCEPT !["MUBARAK TOOLS"] = t]] :
                    t \in Tables(YearSheetRows, MaxYearRows)}
          /\ InitLedgerIn(year)
    /\ probe = NoProbe
    /\ summary = NoSummary
    /\ breakdown = NoBreakdown
    /\ qtrdata = <<>>
    /\ qtrfile = NoQtrFile
    /\ qtrStatus = "none"
    /\ ss = NoSession
    /\ home = NoHome
    /\ InitSalesSide

\* an expense_categories.json with the salaries under the given cost-type
\* key, an insurance and a rent
SalariedCategories(key) ==
    << [super |-> "Operations",
        subs |-> << [sub |-> "Suppliers", values |-> {"MUBARAK"},
                     key |-> "VARIABLE"],
                    [sub |-> "Utilities", values |-> {"DEWA"},
                     key |-> "FIXED"],
                    [sub |-> "Insurance", values |-> {"INS"},
                     key |-> "FIXED"] >>],
       [super |-> "Employees",
        subs |-> << [sub |-> "Staff Salaries", values |-> {"SALARY"},
                     key |-> key] >>],
       [super |-> "Rent",
        subs |-> << [sub |-> "Shop Rent", values |-> {"RENT"},
                     key |-> "FIXED"] >>] >>

CostConfigurations ==
    {[Configuration EXCEPT !.expense = SalariedCategories(key)] :
        key \in {"FIXED", "VARIABLE"}}

\* debit rows of the main sheet: utilities and uncategorized costs of two
\* months, an insurance, a salary and a rent
CostSheetRows ==
    {SheetRow(date, kind[1], kind[2], NaN, 0) :
        date \in {12, 13}, kind \in {<<"Dewa", 24>>, <<"MISC", 23>>}}
    \cup {SheetRow(12, kind[1], kind[2], NaN, 0) :
             kind \in {<<"INS", 12>>, <<" salary", 20>>, <<"RENT", 36>>}}

\* the readers and the two reports on ledgers of costs
InitCosts ==
    /\ bincard \in Tables(SummaryRawRows, MaxSummaryRows) \ {<<>>}
    /\ workbook \in
          {[main |-> <<OpeningRow>> \o m, qtr |-> <<QuarterlyRow>>,
            suppliers |-> OneSupplier] :
              m \in Tables(CostSheetRows, MaxCostRows)}
    /\ categories \in CostConfigurations
    /\ currentYear = 2025
    /\ cbStatus = "none"
    /\ mcb = <<>>
    /\ qtr = <<>>
    /\ cashbook = <<>>
    /\ fixed_costs = <<>>
    /\ lastCall = NoCall
    /\ probe = NoProbe
    /\ summary = NoSummary
    /\ breakdown = NoBreakdown
    /\ qtrdata = <<>>
    /\ qtrfile = NoQtrFile
    /\ qtrStatus = "none"
    /\ ss = NoSession
    /\ home = NoHome
    /\ InitSalesSide

\* one row of the Issued Record sheet: 10 g gross, 7.5 g pure
IssuedRow(date, invoice) ==
    ("Date" :> date) @@ ("Invoice Number" :> invoice)
        @@ ("Gross Weight" :> 10) @@ ("Pure Weight" :> 75000)
        @@ ("Making Value" :> 30)

\* one row of the ItemSales sheet
ItemRow(invoice, code) ==
    ("Invoice Number" :> invoice) @@ ("Item Code" :> code)
        @@ ("Making Rate" :> 3)

\* the row under the header of the Issued Record sheet, which carries no
\* sale
FillerRow ==
    ("Date" :> NaN) @@ ("Invoice Number" :> <<>>) @@ ("Gross Weight" :> NaN)
        @@ ("Pure Weight" :> NaN) @@ ("Making Value" :> NaN)

IssuedRows ==
    {IssuedRow(date, invoice) :
        date \in {NaN, 12}, invoice \in {<<"Q", "1">>, <<"Q", "2">>}}

ItemRows ==
    {ItemRow(<<"Q", "1">>, code) :
        code \in {Code18_BRA, Code18_CCH, CodeSCRAP}}

\* the quarterly reader on workbooks whose invoices have no, one or two
\* item rows
InitQtr ==
    /\ bincard = <<>>
    /\ workbook = FixedWorkbook
    /\ probe = NoProbe
    /\ summary = NoSummary
    /\ breakdown = NoBreakdown
    /\ qtrfile \in
          {[issued |-> <<FillerRow>> \o t, items |-> it] :
              t \in Tables(IssuedRows, MaxIssuedRows),
              it \in Tables(ItemRows, MaxItemRows)}
    /\ qtrStatus = "none"
    /\ qtrdata = <<>>
    /\ ss = NoSession
    /\ home = NoHome
    /\ InitSalesSide
    /\ InitLedgerSide

PublicCalls == {SupplierCalls[3], SupplierCalls[5]}

Next ==
    \/ CashbookReaderInit
    \/ WingoldReaderInit
    \/ AddData(wingold_mapping)
    \/ \E src \in {"wingold", "sales"}, rate \in GoldRates :
          IncomeExpensesData(src, rate)

NextSales ==
    \/ WingoldReaderInit
    \/ \E m \in Mappings : AddData(m)

NextBatches ==
    \/ WingoldReaderInit
    \/ AddData(wingold_mapping)
    \/ AddQtrData

NextUpload ==
    \/ \E b \in UploadBinCards, w \in UploadWorkbooks : UploadMain(b, w)
    \/ \E include_qtr \in BOOLEAN, rate \in GoldRates :
          FinancialAnalysis(include_qtr, rate)

NextLedger ==
    \/ CashbookReaderInit
    \/ \E call \in PublicCalls : ReadSupplierAccount(call)

NextCosts ==
    \/ CashbookReaderInit
    \/ WingoldReaderInit
    \/ \E rate \in GoldRates : IncomeExpensesData("wingold", rate)
    \/ FixedCostPieChartData

NextQtr == QTRReaderInit

NextHome ==
    \/ \E b \in UploadBinCards, w \in UploadWorkbooks : UploadMain(b, w)
    \/ \E finished \in BOOLEAN : Home(finished)

NextPurity ==
    \/ \E p \in 0..10000 : ClassifySales(p)
    \/ \E p \in 0..10000 : ClassifyWingold(p)

Spec == Init /\ [][Next]_vars

SpecSales == InitSales /\ [][NextSales]_vars

SpecBins == InitBins /\ [][NextSales]_vars

SpecBatches == InitBatches /\ [][NextBatches]_vars

SpecUpload == InitUpload /\ [][NextUpload]_vars

SpecLedger == InitLedger /\ [][NextLedger]_vars

SpecSuppliers == InitSuppliers /\ [][NextLedger]_vars

SpecPurity == InitPurity /\ [][NextPurity]_vars

SpecYears == InitYears /\ [][NextLedger]_vars

SpecCosts == InitCosts /\ [][NextCosts]_vars

SpecQtr == InitQtr /\ [][NextQtr]_vars

SpecHome == InitUpload /\ [][NextHome]_vars

-----------------------------------------------------------------------------
(* Properties.                                                             *)

Band(ranges, p) == {i \in 1..Len(ranges) : ranges[i].lo <= p /\ p <= ranges[i].hi}

ProbedRanges == IF probe.cls = "sales" THEN SalesRanges ELSE WingoldRanges

\* C1: for every purity p, classification returns exactly one karat
\* category, and the lower edge of that band as manufacturing purity, when p
\* lies in exactly one band; it fails with an error when p lies in no band;
\* no p lies in more than one band.  Stated of both Purity classes.
C1_ClassifyOrFail ==
    probe.cls # "none" =>
        LET holding == Band(ProbedRanges, probe.p)
        IN  /\ Cardinality(holding) <= 1
            /\ \A i \in holding :
                  /\ probe.category = Returned(ProbedRanges[i].key)
                  /\ probe.mpurity = Returned(ProbedRanges[i].lo)
            /\ holding = {} => probe.category.raised /\ probe.mpurity.raised

\* C2: on every ingestion path a row whose purity is outside all bands makes
\* the ingestion fail; no frame a reader or Sales holds carries an error
\* value as a purity category or a manufacturing purity.
C2_NoStoredErrorValue ==
    /\ wgStatus = "ok" =>
          \A i \in 1..Len(transactions) :
              /\ transactions[i].PurityCategory # "ValueError"
              /\ transactions[i].ManufacturingPurity # ValueErrorObject
    /\ \A i \in 1..Len(salesDf.rows) :
          /\ salesDf.rows[i]["Purity Category"] # "ValueError"
          /\ salesDf.rows[i]["Manufacturing Purity"] # ValueErrorObject

\* the gold gain of a canonical row is (purity - lower edge of the band that
\* holds the purity) * gross weight
GoldGainIdentity(r) ==
    \E i \in Band(SalesRanges, r["Purity"]) :
        /\ r["Manufacturing Purity"] = SalesRanges[i].lo
        /\ r["Gold Gains"] = (r["Purity"] - SalesRanges[i].lo) * r["Gross Weight"]

IsReturnRow(r) == r["TransactionType"] = "RETURN"

\* C3 as stated: every canonical sales row satisfies the gold-gain identity
\* and the gold gain of a return row is negative.
C3_ReturnGainNegative ==
    \A i \in 1..Len(salesDf.rows) :
        /\ GoldGainIdentity(salesDf.rows[i])
        /\ IsReturnRow(salesDf.rows[i]) => salesDf.rows[i]["Gold Gains"] < 0

\* C3 amended: every canonical sales row satisfies the gold-gain identity;
\* for a return row, whose gross weight is negative, the gold gain is
\* negative when the purity is above the lower edge of its band and zero
\* when the purity is that lower edge.
C3_GoldGain ==
    \A i \in 1..Len(salesDf.rows) :
        LET r == salesDf.rows[i]
        IN  /\ GoldGainIdentity(r)
            /\ (IsReturnRow(r) /\ r["Gross Weight"] < 0) =>
                  /\ r["Purity"] > r["Manufacturing Purity"] => r["Gold Gains"] < 0
                  /\ r["Purity"] = r["Manufacturing Purity"] => r["Gold Gains"] = 0

\* a return row at the lower edge of its band and one above it are held
C3_Witness ==
    /\ \E i \in 1..Len(salesDf.rows) :
          /\ IsReturnRow(salesDf.rows[i])
          /\ salesDf.rows[i]["Gross Weight"] < 0
          /\ salesDf.rows[i]["Purity"] = 7500
    /\ \E i \in 1..Len(salesDf.rows) :
          /\ IsReturnRow(salesDf.rows[i])
          /\ salesDf.rows[i]["Gold Gains"] < 0

\* the bucket of a weight num / den >= 0 with den > 0, edge by edge
BucketOf(num, den) ==
    IF num < 20 * den THEN "<20g"
    ELSE IF num < 30 * den THEN "20-30g"
    ELSE IF num < 40 * den THEN "30-40g"
    ELSE IF num < 50 * den THEN "40-50g"
    ELSE IF num < 100 * den THEN "50-100g"
    ELSE IF num < 150 * den THEN "100-150g"
    ELSE ">150g"

\* C8: every per-unit item weight w >= 0 is in exactly one bucket, the
\* buckets being closed on the left and open on the right with edges at
\* 20, 30, 40, 50, 100 and 150, in the canonical sales table and in the
\* Wingold transactions alike.
C8_WeightRange ==
    /\ \A i \in 1..Len(salesDf.rows) :
          LET r == salesDf.rows[i]
          IN  (r["Unit Quantity"] > 0 /\ r["Gross Weight"] >= 0) =>
                  /\ r["Item Weight"] = <<r["Gross Weight"], r["Unit Quantity"]>>
                  /\ r["Weight Range"] =
                        BucketOf(r["Gross Weight"], r["Unit Quantity"])
    /\ \A i \in 1..Len(transactions) :
          LET t == transactions[i]
          IN  (t.QtyInPcs > 0 /\ t.GrossWt >= 0) =>
                  t.WeightRange = BucketOf(t.GrossWt, t.QtyInPcs)

\* a canonical row whose item weight is exactly 20 g is in "20-30g"
C8_Witness ==
    \E i \in 1..Len(salesDf.rows) :
        /\ salesDf.rows[i]["Unit Quantity"] = 3
        /\ salesDf.rows[i]["Gross Weight"] = 60
        /\ salesDf.rows[i]["Weight Range"] = "20-30g"

RECURSIVE ExpectedBalance(_, _, _, _)
\* the running balance behind sheet row j: the balance behind row j - 1,
\* plus credit minus debit of row j when the row has a date; the credit of
\* row 1 of a seeded sheet is its recorded balance
ExpectedBalance(sheet, j, fourth, seeded) ==
    IF j = 0 THEN 0
    ELSE LET raw == sheet[j]
             before == ExpectedBalance(sheet, j - 1, fourth, seeded)
             debit == IF fourth = "Debit" THEN raw.c4 ELSE raw.c5
             credit == IF seeded /\ j = 1 THEN raw.c6
                       ELSE IF fourth = "Debit" THEN raw.c5 ELSE raw.c4
         IN  IF raw.date = NaN THEN before
             ELSE before + (IF credit = NaN THEN 0 ELSE credit)
                         - (IF debit = NaN THEN 0 ELSE debit)

\* C4: in each sub-ledger, the no-date rows dropped, the recomputed balance
\* of a row is the sum of the credits minus the sum of the debits of the
\* rows up to it; the credit of the first row of the main sub-ledger is
\* first replaced by its recorded balance, the quarterly one has no seed.
C4_RunningBalance ==
    cbStatus = "ok" =>
        /\ \A i \in 1..Len(mcb) :
              /\ mcb[i].Date # NaN
              /\ mcb[i].Balance =
                    ExpectedBalance(workbook.main, mcb[i].index + 1,
                                    "Debit", TRUE)
        /\ \A i \in 1..Len(qtr) :
              /\ qtr[i].Date # NaN
              /\ qtr[i].Balance =
                    ExpectedBalance(workbook.qtr, qtr[i].index + 1,
                                    "Credit", FALSE)
        /\ \A i \in 1..Len(mcb) :
              mcb[i].index = 0 => mcb[i].Credit = workbook.main[1].c6

\* a main sub-ledger of two rows with a no-date row dropped between them,
\* and a quarterly row behind a dropped one
C4_Witness ==
    /\ cbStatus = "ok"
    /\ Len(mcb) = 2
    /\ mcb[2].index = 2
    /\ mcb[2].Balance # mcb[1].Balance
    /\ \E i \in 1..Len(qtr) : qtr[i].index = 1 /\ qtr[i].Balance # 0

\* C5: two read_supplier_account calls in a row for the same sheet and
\* category leave the ledger with the rows the first of them left.
C5_SupplierReplaceIdempotent ==
    lastCall.times = 2 => cashbook = lastCall.after

\* the second call in a row for a supplier that has rows in the ledger
C5_Witness ==
    /\ lastCall.times = 2
    /\ lastCall.sheet = "HARSHAD"
    /\ \E i \in 1..Len(cashbook) : cashbook[i].Category = "HARSHAD"
    /\ \E i \in 1..Len(workbook.main) : workbook.main[i].category = "HARSHAD"

\* C6: every row of the monthly summary has Total Income = Making Charges +
\* QTR Making Charges, Total Cost = -(Expenses + Fixed Costs), Net Profit =
\* Total Income + Total Cost, and Position "Profit" exactly when Net Profit
\* is above 0.
C6_SummaryIdentities ==
    ~summary.out.raised =>
        \A i \in 1..Len(summary.out.value) :
            LET r == summary.out.value[i]
            IN  /\ r["Total Income"] =
                      r["Making Charges"] + r["QTR Making Charges"]
                /\ r["Total Cost"] = 0 - (r["Expenses"] + r["Fixed Costs"])
                /\ r["Net Profit"] = r["Total Income"] + r["Total Cost"]
                /\ r["Position"] \in {"Profit", "Loss"}
                /\ r["Position"] = "Profit" <=> r["Net Profit"] > 0

\* a summary with a break-even month, labelled "Loss", that has income
C6_Witness ==
    /\ ~summary.out.raised
    /\ \E i \in 1..Len(summary.out.value) :
          /\ summary.out.value[i]["Net Profit"] = 0
          /\ summary.out.value[i]["Total Income"] > 0
          /\ summary.out.value[i]["Position"] = "Loss"

\* C7: the monthly summary has exactly one row for every month in which a
\* sales row or a ledger row is dated, and a component with no rows in that
\* month is 0.
C7_EveryMonthHasRow ==
    ~summary.out.raised =>
        \A m \in MonthsOf(summary.sales, "DocDate")
                    \cup MonthsOf(summary.ledger, "Date") :
            /\ Cardinality({i \in 1..Len(summary.out.value) :
                              summary.out.value[i].Month = m}) = 1
            /\ \A i \in 1..Len(summary.out.value) :
                  summary.out.value[i].Month = m =>
                      /\ (m \notin MonthsOf(summary.sales, "DocDate")) =>
                            summary.out.value[i]["Making Charges"] = 0
                      /\ (m \notin MonthsOf(summary.ledger, "Date")) =>
                            /\ summary.out.value[i]["Expenses"] = 0
                            /\ summary.out.value[i]["QTR Making Charges"] = 0

\* a row that is not a 0.995 adjustment record
IsSaleRecord(r) == r["Purity"] # 9950

\* C12: after every processing run the session holds the ledger and the
\* sales table of one and the same run, or neither.
C12_RunAllOrNothing == ss.cashbook.run = ss.sales.run

\* C13: every row of the sales table the session holds carries a "QTR"
\* flag, true exactly for the rows of the quarterly source (the rows with
\* a "Transaction Type"), and the financial analysis page opened with
\* "Include QTR Data" off on a session that holds both tables gets the
\* rows whose flag is false.
C13_QuarterlyFlag ==
    /\ \A i \in 1..Len(ss.sales.data.rows) :
          LET r == ss.sales.data.rows[i]
          IN  /\ "QTR" \in DOMAIN r
              /\ r["QTR"] = ("Transaction Type" \in DOMAIN r)
    /\ (summary.src = "page without QTR" /\ summary.ledger # <<>>
            /\ summary.sales # <<>>) =>
          "QTR" \in SessionColumns

\* C15: Sales.add_data on a batch with 0.995 rows whose other rows are all
\* in a band succeeds, and no row of the sales table has purity 0.995.
C15_ArtifactDropped ==
    /\ \A i \in 1..Len(salesDf.rows) : salesDf.rows[i]["Purity"] # 9950
    /\ (/\ addRes.result # "none"
        /\ \A i \in 1..Len(addRes.batch) :
              IsSaleRecord(addRes.batch[i]) =>
                  Band(SalesRanges, addRes.batch[i]["Purity"]) # {})
          => addRes.result = "ok"

\* a batch of a 0.995 record and a sale was added: the sale is in the table
C15_Witness ==
    /\ addRes.result = "ok"
    /\ \E i \in 1..Len(addRes.batch) : addRes.batch[i]["Purity"] = 9950
    /\ \E i \in 1..Len(addRes.batch) : addRes.batch[i]["Purity"] = 7500
    /\ Len(salesDf.rows) = Len(addRes.before.rows) + 1

\* the frames of the reader
Books == {cashbook, mcb, qtr}

\* the cost-type keys the expense table configures for a sub-category
ExpenseKeys(sub) ==
    UNION {{categories.expense[g].subs[k].key :
               k \in {j \in 1..Len(categories.expense[g].subs) :
                         categories.expense[g].subs[j].sub = sub}} :
           g \in 1..Len(categories.expense)}

\* C16 as stated: a row's cost type is "FIXED" or "VARIABLE" when its debit
\* is above 0 and empty otherwise.
C16_CostTypeFixedOrVariable ==
    cbStatus = "ok" =>
        \A book \in Books : \A i \in 1..Len(book) :
            IF book[i].Debit > 0
            THEN book[i]["Cost Type"] \in {"FIXED", "VARIABLE"}
            ELSE book[i]["Cost Type"] = ""

\* C16: a row's cost type is empty when its debit is not above 0; when it
\* is, the cost type is the key ("FIXED" or "VARIABLE") the expense table
\* configures for the row's sub-category, and "Uncategorized" when the
\* expense table has no such sub-category.
C16_CostTypeResolved ==
    cbStatus = "ok" =>
        \A book \in Books : \A i \in 1..Len(book) :
            LET r == book[i]
                keys == ExpenseKeys(r["Sub-Category"])
            IN  IF ~(r.Debit > 0) THEN r["Cost Type"] = ""
                ELSE IF keys = {} THEN r["Cost Type"] = "Uncategorized"
                ELSE r["Cost Type"] \in keys \cap {"FIXED", "VARIABLE"}

\* a ledger with a fixed cost, and a debit that is "Uncategorized" because
\* the row has a credit too
C16_Witness ==
    /\ cbStatus = "ok"
    /\ \E i \in 1..Len(cashbook) :
          /\ cashbook[i].Debit > 0 /\ cashbook[i].Credit > 0
          /\ cashbook[i].Category = "SALARY"
          /\ cashbook[i]["Cost Type"] = "Uncategorized"
    /\ \E i \in 1..Len(cashbook) : cashbook[i]["Cost Type"] = "FIXED"

\* the sub-categories a table lists a raw category under
SubsOf(table, category) ==
    UNION {{table[g].subs[k].sub :
               k \in {j \in 1..Len(table[g].subs) :
                         category \in table[g].subs[j].values}} :
           g \in 1..Len(table)}

\* the top-level groups of a table that hold a sub-category
SupersOf(table, sub) ==
    {table[g].super :
        g \in {h \in 1..Len(table) :
                  \E k \in 1..Len(table[h].subs) : table[h].subs[k].sub = sub}}

\* the row is categorised by the table its credit selects
ResolvedRow(r) ==
    LET table == IF r.Credit > 0 THEN categories.income
                 ELSE categories.expense
        subs == SubsOf(table, r.Category)
        supers == SupersOf(table, r["Sub-Category"])
    IN  /\ IF subs = {} THEN r["Sub-Category"] = "Uncategorized"
           ELSE r["Sub-Category"] \in subs
        /\ IF supers = {} THEN r["Super-Category"] = "Uncategorized"
           ELSE r["Super-Category"] \in supers

\* the dated rows of a sheet that are of the current year
InYearRows(sheet) ==
    {j \in 1..Len(sheet) :
        sheet[j].date # NaN /\ 2024 + (sheet[j].date \div 12) = currentYear}

\* C17: every row of the constructed reader's frames has the sub-category
\* its raw category has in the income table when its credit is above 0 and
\* in the expense table otherwise, "Uncategorized" when that table lists
\* the category nowhere, and a super-category that holds this sub-category
\* in the same table, "Uncategorized" when none does; the frames have one
\* row for every dated row of their sheet in the current year.
C17_CategoriesResolved ==
    cbStatus = "ok" =>
        /\ \A i \in 1..Len(mcb) : ResolvedRow(mcb[i])
        /\ \A i \in 1..Len(qtr) : ResolvedRow(qtr[i])
        /\ lastCall.times = 0 =>
              \A i \in 1..Len(cashbook) : ResolvedRow(cashbook[i])
        /\ Len(mcb) = Cardinality(InYearRows(workbook.main))
        /\ Len(qtr) = Cardinality(InYearRows(workbook.qtr))

\* a constructed ledger with an income row, an expense row and a row whose
\* category the selected table does not list
C17_Witness ==
    /\ cbStatus = "ok"
    /\ lastCall.times = 0
    /\ \E i \in 1..Len(cashbook) :
          /\ cashbook[i].Credit > 0
          /\ cashbook[i]["Sub-Category"] = "QTR Making Charges"
          /\ cashbook[i]["Super-Category"] = "Sales"
    /\ \E i \in 1..Len(cashbook) :
          /\ cashbook[i].Credit = 0
          /\ cashbook[i]["Sub-Category"] = "Staff Salaries"
          /\ cashbook[i]["Super-Category"] = "Employees"
    /\ \E i \in 1..Len(cashbook) :
          /\ cashbook[i].Category = "SALARY"
          /\ cashbook[i]["Sub-Category"] = "Uncategorized"

\* C18: Analytics.income_expenses_data given the table Sales.add_data
\* produced and the reader's ledger and fixed costs returns a summary.
C18_QueriesAcceptCanonical ==
    summary.src = "sales" => ~summary.out.raised

\* C19: the classifier of the Sales model gives 9K exactly for the
\* purities of 0.375 to 0.40, and fails for a purity above 0.40 and below
\* 0.75.
C19_NineKaratBand ==
    probe.cls = "sales" =>
        /\ (~probe.category.raised /\ probe.category.value = "9K")
              <=> (3750 <= probe.p /\ probe.p <= 4000)
        /\ (4000 < probe.p /\ probe.p < 7500) => probe.category.raised

ItemCategories == {"Bracelets", "Chains", "Bangles", "Rings", "Pendants"}

\* C14: every row of the sales table has an item category among Bracelets,
\* Chains, Bangles, Rings, Pendants and Uncategorized; a code outside the
\* code-to-category table gives "Uncategorized", never a missing category.
C14_CategoryEnumerated ==
    \A i \in 1..Len(salesDf.rows) :
        salesDf.rows[i]["Item Category"]
            \in ItemCategories \cup {"Uncategorized"}

\* the item code of a row of a batch, under either source's column name
BatchCode(r) == IF "ItemCode" \in DOMAIN r THEN r["ItemCode"] ELSE r["Item Code"]

\* the batch of the last add_data call has a row with code UNCAT or UNK
GenuineInBatch ==
    \E i \in 1..Len(addRes.batch) :
        ExtractD02W(Upper(BatchCode(addRes.batch[i])))
            \in {<<"U", "N", "K">>, <<"U", "N", "C", "A", "T">>}

\* C20: of a batch without a genuine uncategorized row (UNCAT, UNK), no
\* row with a code outside the code-to-category table is in the table
\* after add_data; of a batch with one, every row is kept.
C20_NoiseDropped ==
    addRes.result = "ok" =>
        LET held == Len(addRes.before.rows)
            new == SubSeq(salesDf.rows, held + 1, Len(salesDf.rows))
        IN  IF GenuineInBatch
            THEN Len(new) = Len(SelectSeq(addRes.batch, IsSaleRecord))
            ELSE \A i \in 1..Len(new) :
                    new[i]["Item Category"] \in ItemCategories

\* C11: a successful Sales.add_data leaves the rows the table held in
\* place and unchanged and appends, in batch order, one row for every row
\* of the batch (but the 0.995 records), with the batch's values under
\* the canonical names; nothing is deduplicated.
C11_Accumulates ==
    addRes.result = "ok" =>
        LET held == addRes.before.rows
            kept == SelectSeq(addRes.batch, IsSaleRecord)
        IN  /\ Len(salesDf.rows) = Len(held) + Len(kept)
            /\ SubSeq(salesDf.rows, 1, Len(held)) = held
            /\ \A i \in 1..Len(kept) :
                  \A c \in DOMAIN kept[i] \ {"ItemCode", "Item Code"} :
                      salesDf.rows[Len(held) + i][NewName(addRes.mapping, c)]
                          = kept[i][c]

\* the same batch added a second time: its rows are there twice
C11_Witness ==
    /\ addRes.result = "ok"
    /\ addRes.before.rows # <<>>
    /\ salesDf.rows = addRes.before.rows \o addRes.before.rows

Count(df, P(_)) == Cardinality({i \in 1..Len(df) : P(df[i])})

\* s is t with gross weight, pure weight and making value multiplied by sign
\* and every other recorded or derived value as in t
Carries(s, t, sign) ==
    /\ s.DocNumber = t.DocNumber
    /\ s.DocDate = t.DocDate
    /\ s.ItemCode = t.ItemCode
    /\ s.QtyInPcs = t.QtyInPcs
    /\ s.GrossWt = sign * t.GrossWt
    /\ s.PureWt = sign * t.PureWt
    /\ s.MakingValue = sign * t.MakingValue
    /\ s.Purity = t.Purity
    /\ s.ManufacturingPurity = t.ManufacturingPurity
    /\ s.MakingRt = t.MakingRt

\* C9: a transaction with prefix "R" appears in the extracted sales with
\* gross weight, pure weight and making value negated and purity,
\* manufacturing purity and making rate unchanged; one with prefix "S"
\* appears unchanged; nothing else appears.
C9_ReturnsNegated ==
    wgStatus = "ok" =>
        /\ \A j \in 1..Len(transactions) :
              LET t == transactions[j]
                  SameT(x) == x = t
                  NegOfT(x) == Carries(x, t, -1)
                  CopyOfT(x) == Carries(x, t, 1)
              IN  /\ StartsWith(t.DocNumber, "R") =>
                        Count(wgSales, NegOfT) = Count(transactions, SameT)
                  /\ StartsWith(t.DocNumber, "S") =>
                        Count(wgSales, CopyOfT) = Count(transactions, SameT)
        /\ Len(wgSales) = Count(transactions, IsSaleDoc)
                            + Count(transactions, IsReturnDoc)

\* the extracted sales hold a sale and a negated return
C9_Witness ==
    /\ wgStatus = "ok"
    /\ \E i \in 1..Len(wgSales) :
          StartsWith(wgSales[i].DocNumber, "R") /\ wgSales[i].GrossWt < 0
    /\ \E i \in 1..Len(wgSales) :
          StartsWith(wgSales[i].DocNumber, "S") /\ wgSales[i].GrossWt > 0

\* C10: add_data with a mapping that has a target outside the required
\* columns fails with a schema error before any row is processed and leaves
\* the accumulated table as it was.
C10_BadMappingRejected ==
    (/\ addRes.result # "none"
     /\ \E c \in DOMAIN addRes.mapping :
            addRes.mapping[c] \notin required_columns) =>
        /\ addRes.result = "SchemaError"
        /\ ~addRes.preprocessed
        /\ salesDf = addRes.before

\* a call with such a mapping was made on a table that holds rows
C10_Witness ==
    /\ addRes.result = "SchemaError"
    /\ Len(salesDf.rows) > 0

-----------------------------------------------------------------------------
(* The layout of the two sheets.                                           *)

\* the cell of a sheet row, 0 for an empty one
Cell(sheet, r, col) == FillNa(sheet[r.index + 1][col])

\* the quarterly rows read with the named column as their debit
QuarterlyReadAs(fourth) ==
    \A i \in 1..Len(qtr) :
        LET r == qtr[i]
            other == IF fourth = "Debit" THEN "Credit" ELSE "Debit"
        IN  /\ r[fourth] = Cell(workbook.qtr, r, "c4")
            /\ r[other] = Cell(workbook.qtr, r, "c5")
            /\ r.Balance =
                  ExpectedBalance(workbook.qtr, r.index + 1, fourth, FALSE)

\* the main rows behind the first: the 4th column is the debit, the 5th
\* the credit
MainReadAsDebitCredit ==
    \A i \in 1..Len(mcb) :
        mcb[i].index > 0 =>
            /\ mcb[i].Debit = Cell(workbook.main, mcb[i], "c4")
            /\ mcb[i].Credit = Cell(workbook.main, mcb[i], "c5")

-----------------------------------------------------------------------------
(* The frame of a supplier ingestion.                                      *)

\* a ledger row without its label and without the columns the
\* categorization writes
Entry(r) ==
    [Date |-> r.Date, Category |-> r.Category, Debit |-> r.Debit,
     Credit |-> r.Credit, Balance |-> r.Balance, QTR |-> r.QTR]

Entries(book) == [i \in 1..Len(book) |-> Entry(book[i])]

\* the rows of a ledger of a category / of the other categories
OfCategory(book, names) ==
    LET In(r) == r.Category \in names
    IN  SelectRows(book, In)

NotOfCategory(book, names) ==
    LET Out(r) == r.Category \notin names
    IN  SelectRows(book, Out)

\* the freshly parsed rows of a supplier sheet, as ledger entries
FreshEntries(sheet, name) ==
    LET Fresh(raw) == Entry(SupplierRow(raw, name))
    IN  MapRows(SelectRows(sheet, KeepSupplierRow), Fresh)

SupplierNames == {SupplierCalls[i].category : i \in 1..Len(SupplierCalls)}

\* after the five ingestions of the constructor the ledger holds the rows
\* of the two sheets that carry no supplier's name and, for each supplier,
\* its fresh rows once
IngestedInSequence ==
    (cbStatus = "ok" /\ lastCall.times = 0) =>
        LET sheets == read_sheets(workbook).value.cashbook
        IN  /\ Entries(NotOfCategory(cashbook, SupplierNames))
                  = Entries(NotOfCategory(ThisYear(sheets, currentYear),
                                          SupplierNames))
            /\ \A i \in 1..Len(SupplierCalls) :
                  LET c == SupplierCalls[i]
                  IN  Entries(OfCategory(cashbook, {c.category}))
                        = ThisYear(FreshEntries(workbook.suppliers[c.sheet],
                                                c.category), currentYear)

\* one ingestion: the rows of the other categories stay as they are, in
\* their order, and behind them come the fresh rows of the supplier
IngestStep ==
    (cbStatus = "ok" /\ lastCall'.times > 0) =>
        LET name == lastCall'.category
            sheet == workbook.suppliers[lastCall'.sheet]
            stay == NotOfCategory(cashbook, {name})
        IN  /\ Len(cashbook') >= Len(stay)
            /\ \A i \in 1..Len(stay) :
                  [cashbook'[i] EXCEPT !.index = 0]
                      = [stay[i] EXCEPT !.index = 0]
            /\ Entries(SubSeq(cashbook', Len(stay) + 1, Len(cashbook')))
                  = FreshEntries(sheet, name)

\* C22: ingesting a supplier sub-ledger removes from the working ledger
\* exactly the rows whose category is that supplier's category name and
\* appends the freshly parsed rows; every row of another category,
\* previously ingested suppliers' included, is left unchanged, so that
\* after the ingestions made in sequence the ledger holds each supplier's
\* fresh rows exactly once.
C22_SupplierFrame == []IngestedInSequence /\ [][IngestStep]_vars

\* an ingestion of HARSHAD that replaced a row of the main sheet tagged
\* HARSHAD by a fresh row and left the row of MUBARAK in the ledger
C22_Witness ==
    /\ cbStatus = "ok"
    /\ lastCall.sheet = "HARSHAD"
    /\ lastCall.times = 1
    /\ \E i \in 1..Len(workbook.main) : workbook.main[i].category = "HARSHAD"
    /\ Len(OfCategory(cashbook, {"HARSHAD"})) = 1
    /\ Len(OfCategory(cashbook, {"MUBARAK"})) = 1
    /\ cashbook[Len(cashbook)].Category = "HARSHAD"

-----------------------------------------------------------------------------
(* The rows a supplier ingestion adds.                                     *)

\* C23: every row that read_supplier_account adds to the ledger has a
\* total (debit) above 0 and a date in the current calendar year; a row of
\* a supplier sheet dated in another year or with a total that is not
\* positive is never added.
C23_SupplierRowsThisYear ==
    cbStatus = "ok" =>
        \A i \in 1..Len(cashbook) :
            cashbook[i].Category \in SupplierNames =>
                /\ cashbook[i].Debit > 0
                /\ Year(cashbook[i].Date) = currentYear

-----------------------------------------------------------------------------
(* The supplier rows of the constructed ledger.                            *)

\* C24: in the ledger the constructor leaves, every row that came from a
\* supplier sub-ledger has credit 0, super-category "Operations",
\* sub-category "Suppliers", the supplier name as its category and cost
\* type "VARIABLE", whatever the category tables contain.
C24_SupplierRowsTagged ==
    cbStatus = "ok" =>
        \A i \in 1..Len(cashbook) :
            cashbook[i].Category \in SupplierNames =>
                /\ cashbook[i].Credit = 0
                /\ cashbook[i]["Super-Category"] = "Operations"
                /\ cashbook[i]["Sub-Category"] = "Suppliers"
                /\ cashbook[i]["Cost Type"] = "VARIABLE"

-----------------------------------------------------------------------------
(* Expenses and fixed costs of the monthly summary.                        *)

\* the rows the resolution keeps out of the expense and fixed-cost totals
AlwaysExcluded(r) ==
    \/ r["Sub-Category"] \in {"Staff Salaries", "Visa Fees", "Loans"}
    \/ r["Super-Category"] = "Rent"

\* the debits of a month's debit-positive rows that are not excluded
DebitsOfMonth(book, m) ==
    LET Counts(r) == r.Date = m /\ r.Debit > 0 /\ ~AlwaysExcluded(r)
    IN  SumCol(SelectRows(book, Counts), "Debit")

\* a ledger without its row j
WithoutRow(book, j) == SubSeq(book, 1, j - 1) \o SubSeq(book, j + 1, Len(book))

\* the summary of the recorded call on another ledger
SummaryOn(book) ==
    income_expenses_data(summary.sales, SummaryReads, book, summary.fixed,
                         summary.rate).value

\* the expenses of all months of a summary
TotalExpenses(table) == SumCol(table, "Expenses")

\* C25: for every month of the monthly summary, Expenses is the sum of the
\* debits of that month's debit-positive ledger rows other than the rows
\* whose sub-category is Staff Salaries, Visa Fees or Loans or whose
\* super-category is Rent; a row excluded in this way adds nothing to the
\* Expenses of any month, whatever its cost type.
C25_ExpensesExclude ==
    ~summary.out.raised =>
        /\ \A i \in 1..Len(summary.out.value) :
              summary.out.value[i]["Expenses"]
                  = 12 * DebitsOfMonth(summary.ledger,
                                       summary.out.value[i].Month)
        /\ \A j \in 1..Len(summary.ledger) :
              AlwaysExcluded(summary.ledger[j]) =>
                  TotalExpenses(SummaryOn(WithoutRow(summary.ledger, j)))
                      = TotalExpenses(summary.out.value)

\* the debits of the FIXED rows of a ledger that are not excluded
FixedDebits(book) ==
    LET Counts(r) == r["Cost Type"] = "FIXED" /\ ~AlwaysExcluded(r)
    IN  SumCol(SelectRows(book, Counts), "Debit")

\* the configured yearly fixed costs, whatever their category
ConfiguredYearly(cfg) ==
    LET Cost(j) == cfg.fixed[j].cost
        Sum[j \in 0..Len(cfg.fixed)] ==
            IF j = 0 THEN 0 ELSE Sum[j - 1] + Cost(j)
    IN  Sum[Len(cfg.fixed)]

\* C26: Fixed Costs has the same value in every row of the monthly
\* summary: (the sum of all configured yearly fixed costs)/12 plus (the sum
\* of the debits of the ledger rows of cost type FIXED other than Staff
\* Salaries, Visa Fees, Loans and the super-category Rent)/12; a configured
\* fixed cost counts whatever its category.  Amounts are in twelfths.
C26_FixedCostsConstant ==
    ~summary.out.raised =>
        \A i \in 1..Len(summary.out.value) :
            summary.out.value[i]["Fixed Costs"]
                = ConfiguredYearly(categories) + FixedDebits(summary.ledger)

\* a summary of two months on a ledger with a FIXED utilities row of 24
\* and a FIXED salary, with a configured yearly cost of 120 of the
\* super-category Rent
C26_Witness ==
    /\ ~summary.out.raised
    /\ Len(summary.out.value) = 2
    /\ \E i, j \in 1..Len(summary.ledger) :
          /\ summary.ledger[i]["Sub-Category"] = "Utilities"
          /\ summary.ledger[j]["Sub-Category"] = "Staff Salaries"
          /\ summary.ledger[j]["Cost Type"] = "FIXED"
    /\ \E k \in 1..Len(summary.fixed) :
          summary.fixed[k]["Super-Category"] = "Rent"
    /\ \A i \in 1..2 : summary.out.value[i]["Fixed Costs"] = 120 + 24

-----------------------------------------------------------------------------
(* The gold price.                                                         *)

\* the gold prices the recorded summary is compared at
ComparedRates == {0, 1, 390, 391}

\* the profit figures of a summary row
ProfitFigures(r) ==
    <<r.Month, r["Making Charges"], r["QTR Making Charges"], r["Expenses"],
      r["Fixed Costs"], r["Total Income"], r["Total Cost"], r["Net Profit"],
      r["Position"]>>

\* the summary of the recorded tables at another gold price
SummaryAt(rate) ==
    income_expenses_data(summary.sales, SummaryReads, summary.ledger,
                         summary.fixed, rate).value

\* the gold gains of a month of the recorded sales, in grams of gold
GainsOfMonth(m) ==
    LET InMonth(r) == r.DocDate = m
    IN  SumCol(SelectRows(summary.sales, InMonth), "GoldGains")

\* C27: two runs of the monthly summary on the same sales, ledger and
\* fixed-cost tables that differ only in the gold price give the same
\* Total Income, Total Cost, Net Profit and Position in every month; only
\* the gold-gains column differs, and it is the month's gold gains times
\* the price.  Amounts are in twelfths.
C27_GoldPriceNoInterference ==
    ~summary.out.raised =>
        \A rate \in ComparedRates :
            LET other == SummaryAt(rate)
            IN  /\ Len(other) = Len(summary.out.value)
                /\ \A i \in 1..Len(other) :
                      /\ ProfitFigures(other[i])
                            = ProfitFigures(summary.out.value[i])
                      /\ other[i].GoldGains
                            = 12 * rate * GainsOfMonth(other[i].Month)
                      /\ summary.out.value[i].GoldGains
                            = 12 * summary.rate * GainsOfMonth(other[i].Month)

\* a summary at the price 390 with a month that has gold gains and ends
\* in a loss
C27_Witness ==
    /\ ~summary.out.raised
    /\ summary.rate = 390
    /\ \E i \in 1..Len(summary.out.value) :
          /\ summary.out.value[i].GoldGains > 0
          /\ summary.out.value[i]["Position"] = "Loss"

-----------------------------------------------------------------------------
(* The two reports.                                                        *)

\* the Fixed Costs value of a summary
FixedCostsOf(table) == table[1]["Fixed Costs"]

\* the reports were computed from the same ledger and fixed costs
SameInputs ==
    /\ breakdown.called
    /\ ~summary.out.raised
    /\ summary.out.value # <<>>
    /\ summary.ledger = breakdown.ledger
    /\ summary.fixed = breakdown.fixed

-----------------------------------------------------------------------------
(* The quarterly reader.                                                   *)

\* the columns of the Issued Record sheet in a row of a frame
IssuedEntry(r) ==
    [c \in {"Date", "Invoice Number", "Gross Weight", "Pure Weight",
            "Making Value"} |-> r[c]]

\* the dated rows of the Issued Record sheet behind its first row
DatedIssued == SelectRows(Tail(qtrfile.issued), HasDate)

\* the item rows of an invoice
ItemsOf(invoice) ==
    LET Same(it) == it["Invoice Number"] = invoice
    IN  SelectRows(qtrfile.items, Same)

\* C29: every dated row of the quarterly sales-ledger sheet is in
\* QTRReader.data exactly once, whether no, one or several item rows carry
\* its invoice number; with no item row its item code and making rate are
\* empty; the making value of the data adds up to that of the dated rows
\* of the sheet.
C29_IssuedRowsOnce ==
    qtrStatus = "ok" =>
        /\ [i \in 1..Len(qtrdata) |-> IssuedEntry(qtrdata[i])]
              = [i \in 1..Len(DatedIssued) |-> IssuedEntry(DatedIssued[i])]
        /\ \A i \in 1..Len(qtrdata) :
              ItemsOf(qtrdata[i]["Invoice Number"]) = <<>> =>
                  /\ qtrdata[i]["Item Code"] = <<>>
                  /\ qtrdata[i]["Making Rate"] = NaN
        /\ SumCol(qtrdata, "Making Value")
              = SumCol(DatedIssued, "Making Value")

-----------------------------------------------------------------------------
(* The navigation of Home.                                                 *)

\* while the session lacks the ledger or the sales table the flag is not
\* set, and no second switch to the analysis page is made while both are
\* there
HomeFlag ==
    /\ Lacking(ss) => ~home.redirected /\ home.switches = 0
    /\ home.switches <= 1
    /\ home.redirected => home.switches = 1

\* a run of Home that reached the check: without the ledger or the sales
\* table it resets the flag and switches to the upload page; with both it
\* leaves the flag set, and it switches to the analysis page exactly when
\* the flag was not set before
HomeStep ==
    (home' # home /\ home'.reached) =>
        /\ Lacking(ss) =>
              /\ ~home'.redirected
              /\ home'.switched_to = "pages/upload.py"
        /\ ~Lacking(ss) =>
              /\ home'.redirected
              /\ home'.switched_to = "pages/financial_analysis.py"
                    <=> ~home.redirected
              /\ home'.switched_to \in {"pages/financial_analysis.py", "none"}

====
